---- MODULE Spec2Model ----
(***************************************************************************)
(* A model of the ngc-learn dynamics components: HebbianSynapse, LIFCell,  *)
(* BernoulliCell, LatencyCell, STPDenseSynapse and SLIFCell.  Every        *)
(* component is a record whose fields are the attributes set by its        *)
(* constructor and its compartments.  Real numbers                         *)
(* are fixed-point integers with Q units per 1.0 (float32 in the source);  *)
(* a product or a quotient is rounded to the nearest unit.  A behaviour    *)
(* drives the components that were built; a component that was not built   *)
(* is Absent.                                                              *)
(***************************************************************************)
EXTENDS Integers, Sequences, FiniteSets, TLC

VARIABLES heb, lif, bern, lat, stp, slif, archive, t, op, args, prev, drawn,
          log

vars ==
    <<heb, lif, bern, lat, stp, slif, archive, t, op, args, prev, drawn, log>>

(* ------------------------------ bounds --------------------------------- *)

\* fixed-point units per 1.0
Q == 1000
\* the simulation clock stops after this many advance steps (general cells)
MaxSteps == 4
\* the number of advance steps of the single-unit scenario
ScenarioSteps == 10
\* the number of advance steps of the population of three units
WideSteps == 2
\* a synapse is reset at most this many times
MaxResets == 1

(* --------------------------- fixed-point arithmetic -------------------- *)

RoundDiv(a, b) == (2 * a + b) \div (2 * b)

Mul(a, b) == RoundDiv(a * b, Q)

Abs(a) == IF a < 0 THEN -a ELSE a

Clip(x, lo, hi) == IF x < lo THEN lo ELSE IF x > hi THEN hi ELSE x

RECURSIVE SumSeq(_)
SumSeq(s) == IF s = <<>> THEN 0 ELSE Head(s) + SumSeq(Tail(s))

(* ------------------------------- tensors ------------------------------- *)
(* A compartment holds None, a scalar (a Python number or a 0-d array) or  *)
(* a matrix (a sequence of rows).                                          *)

None == [kind |-> "none", rows |-> <<>>]

Scalar(x) == [kind |-> "scalar", rows |-> <<<<x>>>>]

Mat(rows) == [kind |-> "mat", rows |-> rows]

Shape(T) == IF T.kind = "mat" THEN <<Len(T.rows), Len(T.rows[1])>> ELSE <<>>

\* entry (i, j) of T, a scalar being broadcast
Elem(T, i, j) == IF T.kind = "scalar" THEN T.rows[1][1] ELSE T.rows[i][j]

Entries(T) == {T.rows[i][k] : i \in 1..Len(T.rows), k \in 1..Len(T.rows[1])}

(* ------------------------------- PRNG keys ----------------------------- *)
(* A key is its path in the tree of splits: split(key, n) returns the n    *)
(* children of key, all new.                                               *)

Roots == {<<0>>, <<1>>}

Split(key, n) == [i \in 1..n |-> Append(key, i - 1)]

(* ---------------------------- components ------------------------------- *)

Absent == [built |-> FALSE]

\* the archive file of a component that was never saved
NoFile == [exists |-> FALSE]

\* the arguments of an operation that takes none
NoArgs == [none |-> TRUE]

(* ============================ HebbianSynapse =========================== *)

\* the constructor arguments the model builds synapses with
HebbConfigs ==
    {[shape |-> <<2, 1>>, Rscale |-> Q, w_bounds |-> c[1], w_decay |-> 0,
      pre_wght |-> Q, post_wght |-> Q, bInit |-> c[3],
      is_nonnegative |-> c[2], signVal |-> Q] :
        c \in {<<Q, TRUE, TRUE>>, <<Q, FALSE, FALSE>>, <<0, TRUE, FALSE>>}}
    \cup
    {[shape |-> <<2, 1>>, Rscale |-> Q \div 2, w_bounds |-> Q,
      w_decay |-> Q \div 10, pre_wght |-> Q \div 2, post_wght |-> 2 * Q,
      bInit |-> TRUE, is_nonnegative |-> FALSE, signVal |-> -Q]}

\* values a unit of a layer feeds a synapse with (a rate or a spike)
ActVals == {0, Q}

Rows(n, V) == {Mat(<<r>>) : r \in [1..n -> V]}

\* the activity of the n units before a synapse: at least the last is active
HebbInputs(n) == {r \in Rows(n, ActVals) : r.rows[1][n] = Q}

\* a tensor of kind knd and shape <<r, c>> whose entries run through the
\* values V (a sequence), from any starting point
Runs(knd, r, c, V) ==
    LET val(d, i, k) == V[((d + i + k) % Len(V)) + 1]
        new(d) == [i \in 1..r |-> [k \in 1..c |-> val(d, i, k)]]
    IN  {[kind |-> knd, rows |-> new(d)] : d \in 1..Len(V)}

\* initialize_params(key, kernel, shape): a matrix of the given shape drawn
\* by the kernel, here ("uniform", 0., 0.3)
InitializeParams(shp) == Runs("mat", shp[1], shp[2], <<0, (3 * Q) \div 10>>)

\* what the optimizer may return for a parameter shaped like P
OptimizerOut(P, V) == Runs(P.kind, Len(P.rows), Len(P.rows[1]), V)

\* calc_update with the sign factor left off the weight update
calc_update_unsigned(pre, post, W, w_bound, is_nonnegative, signVal, w_decay, pre_wght, post_wght) ==
    LET n_in == Len(pre.rows[1])
        n_out == Len(post.rows[1])
        batch == 1..Len(pre.rows)
        xpre(b, i) == Mul(pre.rows[b][i], pre_wght)
        xpost(b, k) == Mul(post.rows[b][k], post_wght)
        dW0(i, k) == SumSeq([b \in batch |-> Mul(xpre(b, i), xpost(b, k))])
        db0(i, k) == SumSeq([b \in batch |-> xpost(b, k)])
        dW1(i, k) == IF w_bound > 0
                     THEN Mul(dW0(i, k), w_bound - Abs(Elem(W, i, k)))
                     ELSE dW0(i, k)
        dW2(i, k) == IF w_decay > 0
                     THEN dW1(i, k) - Mul(Elem(W, i, k), w_decay)
                     ELSE dW1(i, k)
        db1(i, k) == Mul(db0(i, k), signVal)
    IN  <<Mat([i \in 1..n_in |-> [k \in 1..n_out |-> dW2(i, k)]]),
          Mat([i \in 1..1 |-> [k \in 1..n_out |-> db1(i, k)]])>>

calc_update(pre, post, W, w_bound, is_nonnegative, signVal, w_decay, pre_wght, post_wght) ==
    LET n_in == Len(pre.rows[1])
        n_out == Len(post.rows[1])
        batch == 1..Len(pre.rows)
        xpre(b, i) == Mul(pre.rows[b][i], pre_wght)
        xpost(b, k) == Mul(post.rows[b][k], post_wght)
        dW0(i, k) == SumSeq([b \in batch |-> Mul(xpre(b, i), xpost(b, k))])
        db0(i, k) == SumSeq([b \in batch |-> xpost(b, k)])
        dW1(i, k) == IF w_bound > 0
                     THEN Mul(dW0(i, k), w_bound - Abs(Elem(W, i, k)))
                     ELSE dW0(i, k)
        dW2(i, k) == IF w_decay > 0
                     THEN dW1(i, k) - Mul(Elem(W, i, k), w_decay)
                     ELSE dW1(i, k)
        dW3(i, k) == Mul(dW2(i, k), signVal)
        db1(i, k) == Mul(db0(i, k), signVal)
    IN  <<Mat([i \in 1..n_in |-> [k \in 1..n_out |-> dW3(i, k)]]),
          Mat([i \in 1..1 |-> [k \in 1..n_out |-> db1(i, k)]])>>


\* enforce_constraints with the non-negative case clipped like the signed one
enforce_constraints_signed(W, w_bound, is_nonnegative) ==
    LET clipped(i, k) == Clip(W.rows[i][k], -w_bound, w_bound)
    IN  IF w_bound > 0
        THEN [W EXCEPT !.rows = [i \in 1..Len(W.rows) |->
                 [k \in 1..Len(W.rows[1]) |-> clipped(i, k)]]]
        ELSE W

enforce_constraints(W, w_bound, is_nonnegative) ==
    LET lo == IF is_nonnegative THEN 0 ELSE -w_bound
        clipped(i, k) == Clip(W.rows[i][k], lo, w_bound)
    IN  IF w_bound > 0
        THEN [W EXCEPT !.rows = [i \in 1..Len(W.rows) |->
                 [k \in 1..Len(W.rows[1]) |-> clipped(i, k)]]]
        ELSE W

\* jnp.matmul needs operands of at least one dimension
MatmulOk(inp, weight) ==
    /\ inp.kind = "mat"
    /\ weight.kind = "mat"
    /\ Len(inp.rows[1]) = Len(weight.rows)

compute_layer(inp, weight, biases, Rscale) ==
    LET n_in == Len(weight.rows)
        n_out == Len(weight.rows[1])
        out(b, k) ==
            SumSeq([i \in 1..n_in |->
                       Mul(inp.rows[b][i], Mul(weight.rows[i][k], Rscale))])
            + Elem(biases, 1, k)
    IN  Mat([b \in 1..Len(inp.rows) |-> [k \in 1..n_out |-> out(b, k)]])

\* HebbianSynapse.__init__
HebbNew(cfg, root, W, b) ==
    LET k1 == Split(root, 2)
        k2 == Split(k1[1], 2)
        biases == IF cfg.bInit THEN b ELSE Scalar(0)
    IN  [built |-> TRUE, shape |-> cfg.shape, Rscale |-> cfg.Rscale,
         w_bounds |-> cfg.w_bounds, w_decay |-> cfg.w_decay,
         pre_wght |-> cfg.pre_wght, post_wght |-> cfg.post_wght,
         bInit |-> cfg.bInit, is_nonnegative |-> cfg.is_nonnegative,
         signVal |-> cfg.signVal,
         key |-> k2[1], inputs |-> None, outputs |-> None, trigger |-> None,
         pre |-> None, post |-> None, dW |-> Scalar(0), db |-> Scalar(0),
         weights |-> W, biases |-> biases, theta |-> <<W, biases>>,
         updates |-> <<Scalar(0), Scalar(0)>>, new_theta |-> <<>>]

HebbBuilt ==
    {HebbNew(cfg, root, W, b) :
        cfg \in HebbConfigs, root \in {<<0>>},
        W \in InitializeParams(<<2, 1>>), b \in InitializeParams(<<1, 1>>)}

\* the keys __init__ drew with
HebbDrawn(h) ==
    LET k == SubSeq(h.key, 1, Len(h.key) - 2)
    IN  <<Split(k, 2)[2], Split(Split(k, 2)[1], 2)[2]>>

\* what a step of the synapse leaves alone
HebbFrame == <<lif, bern, lat, stp, slif, archive, args, t, prev, log>>

\* advance: gather the inputs, then pure_advance and the resolver's set
HebbAdvance ==
    /\ heb.built
    /\ \E inp \in HebbInputs(heb.shape[1]) :
        /\ MatmulOk(inp, heb.weights)
        /\ heb' = [heb EXCEPT !.inputs = inp,
                     !.outputs = compute_layer(inp, heb.weights, heb.biases,
                                               heb.Rscale)]
    /\ op' = "advance"
    /\ UNCHANGED <<drawn, HebbFrame>>

\* advance on weights that are no matrix: matmul raises, nothing is set
HebbAdvanceError ==
    /\ heb.built
    /\ \E inp \in HebbInputs(heb.shape[1]) :
        /\ ~MatmulOk(inp, heb.weights)
        /\ heb' = [heb EXCEPT !.inputs = inp]
    /\ op' = "advance_error"
    /\ UNCHANGED <<drawn, HebbFrame>>

\* a pre_evolve that also applies the update to the parameters
pure_pre_evolve_applied(h, pre, post) ==
    LET u == calc_update(pre, post, h.weights, h.w_bounds, h.is_nonnegative,
                         h.signVal, h.w_decay, h.pre_wght, h.post_wght)
        W == Mat([i \in 1..h.shape[1] |-> [k \in 1..h.shape[2] |->
                     Elem(h.weights, i, k) + u[1].rows[i][k]]])
    IN  [h EXCEPT !.pre = pre, !.post = post, !.weights = W,
                  !.theta = <<W, h.biases>>,
                  !.dW = u[1], !.db = u[2], !.updates = u]

pure_pre_evolve(h, pre, post) ==
    LET u == calc_update(pre, post, h.weights, h.w_bounds, h.is_nonnegative,
                         h.signVal, h.w_decay, h.pre_wght, h.post_wght)
    IN  [h EXCEPT !.pre = pre, !.post = post,
                  !.theta = <<h.weights, h.biases>>,
                  !.dW = u[1], !.db = u[2], !.updates = u]

HebbPreEvolve ==
    /\ heb.built
    /\ \E pre \in HebbInputs(heb.shape[1]),
          post \in Rows(heb.shape[2], ActVals) :
        heb' = pure_pre_evolve(heb, pre, post)
    /\ op' = "pre_evolve"
    /\ UNCHANGED <<drawn, HebbFrame>>

\* values the optimizer may return, some of them outside every bound
OptVals == <<-(3 * Q) \div 2, Q \div 2, (3 * Q) \div 2>>

\* the optimizer's update: new parameters shaped like theta
HebbOptimizerUpdate ==
    /\ heb.built
    /\ \E W \in OptimizerOut(heb.theta[1], OptVals),
          b \in OptimizerOut(heb.theta[2], <<Q \div 2>>) :
        heb' = [heb EXCEPT !.new_theta = <<W, b>>]
    /\ op' = "update"
    /\ UNCHANGED <<drawn, HebbFrame>>

pure_post_evolve(h) ==
    LET weights == enforce_constraints(Scalar(0), h.w_bounds,
                                       h.is_nonnegative)
    IN  [h EXCEPT !.weights = weights, !.biases = Scalar(0)]

HebbPostEvolve ==
    /\ heb.built
    /\ heb' = pure_post_evolve(heb)
    /\ op' = "post_evolve"
    /\ UNCHANGED <<drawn, HebbFrame>>

pure_reset(h, batch_size, W, b) ==
    LET k == Split(h.key, 3)
    IN  [h EXCEPT !.inputs = None, !.outputs = None, !.trigger = None,
                  !.pre = None, !.post = None, !.dW = None, !.db = None,
                  !.weights = W,
                  !.biases = IF h.bInit THEN b ELSE Scalar(0),
                  !.key = k[1]]

HebbReset ==
    /\ heb.built
    /\ Len(heb.key) < 3 + MaxResets
    /\ \E W \in InitializeParams(heb.shape),
          b \in InitializeParams(<<1, heb.shape[2]>>) :
        heb' = pure_reset(heb, 1, W, b)
    /\ drawn' = drawn \o SubSeq(Split(heb.key, 3), 2, 3)
    /\ op' = "reset"
    /\ UNCHANGED HebbFrame

HebbInit ==
    /\ heb \in HebbBuilt
    /\ lif = Absent
    /\ bern = Absent
    /\ lat = Absent
    /\ stp = Absent
    /\ slif = Absent
    /\ archive = NoFile
    /\ t = 0
    /\ op = "init"
    /\ args = NoArgs
    /\ prev = Absent
    /\ drawn = HebbDrawn(heb)
    /\ log = <<>>

HebbNext ==
    \/ HebbAdvance
    \/ HebbAdvanceError
    \/ HebbPreEvolve
    \/ HebbOptimizerUpdate
    \/ HebbPostEvolve
    \/ HebbReset

HebbSpec == HebbInit /\ [][HebbNext]_vars

(* ================================ LIFCell ============================== *)
(* Arrays of shape (batch_size, n_units) are rows of n_units entries:      *)
(* batch_size is 1.  Voltages and currents are in Q units per mV; times    *)
(* are whole milliseconds.                                                 *)

\* the constructor arguments of the populations the model builds (with the
\* step size dt their scheduler runs them at)
LIFConfigs ==
    {[n_units |-> 2, tau_m |-> 2, R_m |-> Q, thr |-> -52 * Q,
      v_rest |-> -65 * Q, v_reset |-> -60 * Q, tau_theta |-> tt,
      theta_plus |-> Q \div 20, refract_T |-> 2, one_spike |-> os,
      dt |-> 1] : tt \in {0, 2}, os \in BOOLEAN}
    \cup
    {[n_units |-> 3, tau_m |-> 2, R_m |-> Q, thr |-> -52 * Q,
      v_rest |-> -65 * Q, v_reset |-> -60 * Q, tau_theta |-> 0,
      theta_plus |-> Q \div 20, refract_T |-> 1, one_spike |-> TRUE,
      dt |-> 1]}

\* the single unit of the scenario, tau_theta and theta_plus at their defaults
ScenarioConfigs ==
    {[n_units |-> 1, tau_m |-> 20, R_m |-> Q, thr |-> -52 * Q,
      v_rest |-> -65 * Q, v_reset |-> -60 * Q, tau_theta |-> 10000000,
      theta_plus |-> Q \div 20, refract_T |-> 5, one_spike |-> os,
      dt |-> 1] : os \in BOOLEAN}

\* a population whose threshold a current of 20 from rest reaches exactly
\* and whose threshold increment is as large as its voltage steps
ThresholdConfigs ==
    {[n_units |-> 2, tau_m |-> 2, R_m |-> Q, thr |-> -45 * Q,
      v_rest |-> -65 * Q, v_reset |-> -60 * Q, tau_theta |-> 2,
      theta_plus |-> 10 * Q, refract_T |-> rT, one_spike |-> FALSE,
      dt |-> 1] : rT \in {0, 2}}

\* a population stepped finer than its membrane time constant, and one
\* stepped coarser (dt > tau_m) whose resting potential lies just under the
\* threshold and above the reset potential
RefractoryConfigs ==
    {[n_units |-> 2, tau_m |-> 2, R_m |-> Q, thr |-> -52 * Q,
      v_rest |-> -65 * Q, v_reset |-> -60 * Q, tau_theta |-> 2,
      theta_plus |-> Q \div 20, refract_T |-> 2, one_spike |-> FALSE,
      dt |-> 1],
     [n_units |-> 2, tau_m |-> 1, R_m |-> Q, thr |-> -52 * Q,
      v_rest |-> -53 * Q, v_reset |-> -60 * Q, tau_theta |-> 0,
      theta_plus |-> Q \div 20, refract_T |-> 4, one_spike |-> FALSE,
      dt |-> 2]}

\* the currents a unit may receive in a step
JVals == {0, 20 * Q}

\* the numbers in [0, 1) a uniform draw may give
Uniforms == {0, Q \div 2, Q - 1}

NoKey == <<>>

Const(n, x) == [u \in 1..n |-> x]

Count(s) == SumSeq(s)

\* exp(-x) for x >= 0 in fixed point, by its series
ExpNeg(x) ==
    LET x2 == Mul(x, x)
        x3 == Mul(x2, x)
        x4 == Mul(x3, x)
        x5 == Mul(x4, x)
    IN  Q - x + RoundDiv(x2, 2) - RoundDiv(x3, 6) + RoundDiv(x4, 24)
          - RoundDiv(x5, 120)

\* a choice that ignores the weights p: any of the n indices
RandomChoice_unweighted(u, p) == ((u * Len(p)) \div Q) + 1

\* random.choice(key, n, p = p): the index (from 1) the uniform number u
\* selects by inverting the cumulative sum of p
RandomChoice(u, p) ==
    LET n == Len(p)
        cum(i) == SumSeq(SubSeq(p, 1, i))
        r == cum(n) * (Q - u)
    IN  CHOOSE i \in 1..n :
            /\ cum(i) * Q >= r
            /\ \A k \in 1..(i - 1) : cum(k) * Q < r

one_hot(i, n) == [u \in 1..n |-> IF u = i THEN 1 ELSE 0]

\* update_times without the factor that clears the old time
update_times_additive(tm, s, tols) ==
    [u \in 1..Len(s) |-> tols[u] + s[u] * tm]

update_times(tm, s, tols) ==
    [u \in 1..Len(s) |-> (1 - s[u]) * tols[u] + s[u] * tm]

\* the current scaled by the resistance alone
modify_current_unscaled(j, dt, tau_m, R_m) ==
    [u \in 1..Len(j) |-> Mul(j[u], R_m)]

modify_current(j, dt, tau_m, R_m) ==
    LET jScale == RoundDiv(tau_m * Q, dt)
    IN  [u \in 1..Len(j) |-> Mul(Mul(j[u], R_m), jScale)]

\* the voltage dynamics without the refractory mask
dfv_internal_unmasked(j, v, rfr, tau_m, refract_T, v_rest) ==
    [u \in 1..Len(v) |-> RoundDiv((v_rest - v[u]) + j[u], tau_m)]

dfv_internal(j, v, rfr, tau_m, refract_T, v_rest) ==
    LET mask(u) == IF rfr[u] >= refract_T THEN 1 ELSE 0
    IN  [u \in 1..Len(v) |->
            RoundDiv((v_rest - v[u]) + j[u] * mask(u), tau_m)]

\* step_euler(t, x, dfx, dt, params) with dfx = _dfv
step_euler(v, dt, j, rfr, tau_m, refract_T, v_rest) ==
    LET dv_dt == dfv_internal(j, v, rfr, tau_m, refract_T, v_rest)
    IN  [u \in 1..Len(v) |-> v[u] + dt * dv_dt[u]]

\* action potentials that a voltage equal to the threshold also raises
spike_emission_inclusive(vi, v_thr, v_theta) ==
    [u \in 1..Len(vi) |-> IF vi[u] >= v_theta[u] + v_thr THEN 1 ELSE 0]

\* run_cell, the action potentials: s = (_v > _v_thr)
spike_emission(vi, v_thr, v_theta) ==
    [u \in 1..Len(vi) |-> IF vi[u] > v_theta[u] + v_thr THEN 1 ELSE 0]

\* the refractory update without the reset by a spike
refractory_update_noreset(rfr, dt, s) ==
    [u \in 1..Len(rfr) |-> rfr[u] + dt]

\* run_cell, the refractory variables: _rfr = (rfr + dt) * (1. - s)
refractory_update(rfr, dt, s) ==
    [u \in 1..Len(rfr) |-> (rfr[u] + dt) * (1 - s[u])]

\* no hyper-polarization: the integrated voltage is kept
hyperpolarize_none(vi, s, v_reset) == vi

\* run_cell, the hyper-polarization: _v = _v * (1. - s) + s * v_reset
hyperpolarize(vi, s, v_reset) ==
    [u \in 1..Len(vi) |-> vi[u] * (1 - s[u]) + s[u] * v_reset]

\* run_cell, the spike post-processing under a key: one spike is sampled;
\* draw is the uniform number skey yields
single_spike(s, skey, draw) ==
    LET n == Len(s)
        m_switch == IF Count(s) > 0 THEN 1 ELSE 0
        rS == one_hot(RandomChoice(draw, s), n)
    IN  IF skey # NoKey
        THEN [u \in 1..n |-> s[u] * (1 - m_switch) + rS[u] * m_switch]
        ELSE s

run_cell(dt, j, v, v_thr, v_theta, rfr, skey, draw, tau_m, v_rest, v_reset, refract_T) ==
    LET vi == step_euler(v, dt, j, rfr, tau_m, refract_T, v_rest)
        s == spike_emission(vi, v_thr, v_theta)
    IN  [v |-> hyperpolarize(vi, s, v_reset),
         s |-> single_spike(s, skey, draw), raw_s |-> s,
         rfr |-> refractory_update(rfr, dt, s)]

update_theta(dt, v_theta, s, tau_theta, theta_plus) ==
    LET theta_decay == ExpNeg(RoundDiv(dt * Q, tau_theta))
    IN  [u \in 1..Len(s) |-> Mul(v_theta[u], theta_decay) + s[u] * theta_plus]

\* LIFCell.__init__
LIFNew(cfg, root) ==
    [built |-> TRUE, n_units |-> cfg.n_units, tau_m |-> cfg.tau_m,
     R_m |-> cfg.R_m, one_spike |-> cfg.one_spike, v_rest |-> cfg.v_rest,
     v_reset |-> cfg.v_reset, tau_theta |-> cfg.tau_theta,
     theta_plus |-> cfg.theta_plus, refract_T |-> cfg.refract_T,
     thr |-> cfg.thr, dt |-> cfg.dt,
     j |-> Const(cfg.n_units, 0), v |-> Const(cfg.n_units, cfg.v_rest),
     s |-> Const(cfg.n_units, 0), s_raw |-> Const(cfg.n_units, 0),
     rfr |-> Const(cfg.n_units, cfg.refract_T),
     thr_theta |-> Const(cfg.n_units, 0), tols |-> Const(cfg.n_units, 0),
     key |-> root]

\* the stored key drawn with and kept
LIFSplit_reuse(c) ==
    IF c.one_spike THEN <<c.key, c.key>> ELSE <<c.key, NoKey>>

\* the key advance_state keeps and the key it draws with
LIFSplit(c) ==
    IF c.one_spike THEN Split(c.key, 2) ELSE <<c.key, NoKey>>

\* an advance whose threshold adapts to the emitted spikes
advance_state_emitted(c, tm, draw) ==
    LET ks == LIFSplit(c)
        j == modify_current(c.j, c.dt, c.tau_m, c.R_m)
        r == run_cell(c.dt, j, c.v, c.thr, c.thr_theta, c.rfr, ks[2], draw,
                      c.tau_m, c.v_rest, c.v_reset, c.refract_T)
        thr_theta == IF c.tau_theta > 0
                     THEN update_theta(c.dt, c.thr_theta, r.s,
                                       c.tau_theta, c.theta_plus)
                     ELSE c.thr_theta
    IN  [c EXCEPT !.v = r.v, !.s = r.s, !.s_raw = r.raw_s, !.rfr = r.rfr,
                  !.thr_theta = thr_theta,
                  !.tols = update_times(tm, r.s, c.tols), !.key = ks[1]]

\* LIFCell._advance_state at time tm on the cell c (its j gathered) and the
\* resolver's sets
advance_state(c, tm, draw) ==
    LET ks == LIFSplit(c)
        j == modify_current(c.j, c.dt, c.tau_m, c.R_m)
        r == run_cell(c.dt, j, c.v, c.thr, c.thr_theta, c.rfr, ks[2], draw,
                      c.tau_m, c.v_rest, c.v_reset, c.refract_T)
        thr_theta == IF c.tau_theta > 0
                     THEN update_theta(c.dt, c.thr_theta, r.raw_s,
                                       c.tau_theta, c.theta_plus)
                     ELSE c.thr_theta
    IN  [c EXCEPT !.v = r.v, !.s = r.s, !.s_raw = r.raw_s, !.rfr = r.rfr,
                  !.thr_theta = thr_theta,
                  !.tols = update_times(tm, r.s, c.tols), !.key = ks[1]]

\* a reset that clears the adaptive threshold too
lif_reset_theta(c) ==
    [c EXCEPT !.j = Const(c.n_units, 0), !.v = Const(c.n_units, c.v_rest),
              !.s = Const(c.n_units, 0), !.s_raw = Const(c.n_units, 0),
              !.rfr = Const(c.n_units, c.refract_T),
              !.thr_theta = Const(c.n_units, 0),
              !.tols = Const(c.n_units, 0)]

\* LIFCell._reset and the resolver's sets
lif_reset(c) ==
    [c EXCEPT !.j = Const(c.n_units, 0), !.v = Const(c.n_units, c.v_rest),
              !.s = Const(c.n_units, 0), !.s_raw = Const(c.n_units, 0),
              !.rfr = Const(c.n_units, c.refract_T),
              !.tols = Const(c.n_units, 0)]

\* the number of steps a cell of n units is run for
Horizon(n) ==
    IF n = 1 THEN ScenarioSteps ELSE IF n = 2 THEN MaxSteps ELSE WideSteps

\* the current vectors a population of n units may receive
JVecs(n) == [1..n -> JVals]

\* what a step of the cell leaves alone
LIFFrame == <<heb, bern, lat, stp, slif, archive, args>>

\* one step of the simulation: the current is gathered, the cell advances
LIFAdvance ==
    /\ lif.built
    /\ t < Horizon(lif.n_units) * lif.dt
    /\ \E jin \in JVecs(lif.n_units), draw \in Uniforms :
        LET c == [lif EXCEPT !.j = jin]
        IN  /\ lif' = advance_state(c, t, draw)
            /\ log' = Append(log, [j |-> jin, s |-> lif'.s])
    /\ drawn' = IF lif.one_spike THEN Append(drawn, LIFSplit(lif)[2])
                ELSE drawn
    /\ t' = t + lif.dt
    /\ prev' = lif
    /\ op' = "advance"
    /\ UNCHANGED LIFFrame

\* (a reset of a cell just reset changes no compartment)
LIFReset ==
    /\ lif.built
    /\ op # "reset"
    /\ lif' = lif_reset(lif)
    /\ log' = <<>>
    /\ prev' = lif
    /\ op' = "reset"
    /\ UNCHANGED <<t, drawn, LIFFrame>>

LIFStart(configs) ==
    /\ lif \in {LIFNew(cfg, root) : cfg \in configs, root \in Roots}
    /\ heb = Absent
    /\ bern = Absent
    /\ lat = Absent
    /\ stp = Absent
    /\ slif = Absent
    /\ archive = NoFile
    /\ t = 0
    /\ op = "init"
    /\ args = NoArgs
    /\ prev = Absent
    /\ drawn = <<>>
    /\ log = <<>>

LIFInit == LIFStart(LIFConfigs)

ScenarioInit == LIFStart(ScenarioConfigs)

LIFNext ==
    \/ LIFAdvance
    \/ LIFReset

LIFSpec == LIFInit /\ [][LIFNext]_vars

ScenarioSpec == ScenarioInit /\ [][LIFNext]_vars

RefractoryInit == LIFStart(RefractoryConfigs)

RefractorySpec == RefractoryInit /\ [][LIFNext]_vars

ThresholdInit == LIFStart(ThresholdConfigs)

ThresholdSpec == ThresholdInit /\ [][LIFNext]_vars

(* =============================== QuadLIFCell =========================== *)
(* QuadLIFCell.__init__ runs LIFCell.__init__ and then reads the names     *)
(* v_scale and critical_V, which nothing defines: no cell is ever built.   *)
(* The static _advance_state is a function of its arguments alone; it is   *)
(* applied here to the values LIFCell.__init__ builds and to the v_c and   *)
(* a0 passed to the constructor, and lif holds what it returns.            *)

\* the arguments the quadratic dynamics are run with
QuadConfigs ==
    {[n_units |-> 2, tau_m |-> 2, R_m |-> 2 * Q, thr |-> -52 * Q,
      v_rest |-> -65 * Q, v_reset |-> -60 * Q, v_c |-> (-416 * Q) \div 10,
      a0 |-> Q, tau_theta |-> tt, theta_plus |-> Q \div 20,
      refract_T |-> 2, one_spike |-> os, dt |-> 1] :
        tt \in {0, 2}, os \in BOOLEAN}

\* quadLIFCell._modify_current
quad_modify_current(j, dt, tau_m) ==
    LET jScale == RoundDiv(tau_m * Q, dt)
    IN  [u \in 1..Len(j) |-> Mul(j[u], jScale)]

\* quadLIFCell._dfv_internal
quad_dfv_internal(j, v, rfr, tau_m, refract_T, v_rest, v_c, a0) ==
    LET mask(u) == IF rfr[u] >= refract_T THEN 1 ELSE 0
        leak(u) == Mul(Mul(v_rest - v[u], v[u] - v_c), a0)
    IN  [u \in 1..Len(v) |-> RoundDiv(leak(u) + j[u] * mask(u), tau_m)]

\* step_euler(t, x, dfx, dt, params) with dfx = quadLIFCell._dfv
quad_step_euler(v, dt, j, rfr, tau_m, refract_T, v_rest, v_c, a0) ==
    LET dv_dt == quad_dfv_internal(j, v, rfr, tau_m, refract_T, v_rest,
                                   v_c, a0)
    IN  [u \in 1..Len(v) |-> v[u] + dt * dv_dt[u]]

\* quadLIFCell.run_cell (R_m is passed in and not used)
quad_run_cell(dt, j, v, v_thr, v_theta, rfr, skey, draw, v_c, a0, tau_m, R_m, v_rest, v_reset, refract_T) ==
    LET vi == quad_step_euler(v, dt, j, rfr, tau_m, refract_T, v_rest,
                              v_c, a0)
        s == spike_emission(vi, v_thr, v_theta)
    IN  [v |-> hyperpolarize(vi, s, v_reset),
         s |-> single_spike(s, skey, draw), raw_s |-> s,
         rfr |-> refractory_update(rfr, dt, s)]

\* the arguments of _advance_state: the compartments LIFCell.__init__
\* builds, with v_c and a0
QuadNew(cfg, root) ==
    [built |-> TRUE, n_units |-> cfg.n_units, tau_m |-> cfg.tau_m,
     R_m |-> cfg.R_m, one_spike |-> cfg.one_spike, v_rest |-> cfg.v_rest,
     v_reset |-> cfg.v_reset, tau_theta |-> cfg.tau_theta,
     theta_plus |-> cfg.theta_plus, refract_T |-> cfg.refract_T,
     thr |-> cfg.thr, dt |-> cfg.dt, v_c |-> cfg.v_c, a0 |-> cfg.a0,
     j |-> Const(cfg.n_units, 0), v |-> Const(cfg.n_units, cfg.v_rest),
     s |-> Const(cfg.n_units, 0), s_raw |-> Const(cfg.n_units, 0),
     rfr |-> Const(cfg.n_units, cfg.refract_T),
     thr_theta |-> Const(cfg.n_units, 0), tols |-> Const(cfg.n_units, 0),
     key |-> root]

\* QuadLIFCell._advance_state at time tm on the values c (j gathered): it
\* returns j, v, s, rfr, thr, thr_theta, tols, key
quad_advance_state(c, tm, draw) ==
    LET ks == LIFSplit(c)
        j == quad_modify_current(c.j, c.dt, c.tau_m)
        r == quad_run_cell(c.dt, j, c.v, c.thr, c.thr_theta, c.rfr, ks[2],
                           draw, c.v_c, c.a0, c.tau_m, c.R_m, c.v_rest,
                           c.v_reset, c.refract_T)
        thr_theta == IF c.tau_theta > 0
                     THEN update_theta(c.dt, c.thr_theta, r.raw_s,
                                       c.tau_theta, c.theta_plus)
                     ELSE c.thr_theta
    IN  [c EXCEPT !.j = j, !.v = r.v, !.s = r.s, !.rfr = r.rfr,
                  !.thr_theta = thr_theta,
                  !.tols = update_times(tm, r.s, c.tols), !.key = ks[1]]

\* one step: the current is gathered and _advance_state is applied
QuadAdvance ==
    /\ lif.built
    /\ t < MaxSteps * lif.dt
    /\ \E jin \in JVecs(lif.n_units), draw \in Uniforms :
        LET c == [lif EXCEPT !.j = jin]
        IN  /\ lif' = quad_advance_state(c, t, draw)
            /\ log' = Append(log, [j |-> jin, s |-> lif'.s])
    /\ drawn' = IF lif.one_spike THEN Append(drawn, LIFSplit(lif)[2])
                ELSE drawn
    /\ t' = t + lif.dt
    /\ prev' = lif
    /\ op' = "advance"
    /\ UNCHANGED LIFFrame

QuadInit ==
    /\ lif \in {QuadNew(cfg, root) : cfg \in QuadConfigs, root \in Roots}
    /\ heb = Absent
    /\ bern = Absent
    /\ lat = Absent
    /\ stp = Absent
    /\ slif = Absent
    /\ archive = NoFile
    /\ t = 0
    /\ op = "init"
    /\ args = NoArgs
    /\ prev = Absent
    /\ drawn = <<>>
    /\ log = <<>>

QuadNext == QuadAdvance

QuadSpec == QuadInit /\ [][QuadNext]_vars

(* ============================== BernoulliCell ========================== *)

\* the number of units of the encoder the model builds
BernUnits == 2

\* the spike probabilities a unit may be fed
PVals == {0, Q \div 2, Q}

\* an unset compartment of a cell
NoRow == <<>>

\* random.bernoulli(key, p): a uniform number per unit, compared with p
\* a draw that also fires when the uniform number equals p
random_bernoulli_inclusive(draws, p) ==
    [u \in 1..Len(p) |-> IF draws[u] <= p[u] THEN 1 ELSE 0]

random_bernoulli(draws, p) ==
    [u \in 1..Len(p) |-> IF draws[u] < p[u] THEN 1 ELSE 0]

sample_bernoulli(draws, data) == random_bernoulli(draws, data)

\* BernoulliCell.__init__
BernNew(n, root) ==
    [built |-> TRUE, n_units |-> n, inputs |-> NoRow,
     outputs |-> Const(n, 0), tols |-> Const(n, 0), key |-> root]

\* BernoulliCell._advance_state at time tm (inputs gathered) and the
\* resolver's sets; draws are the uniform numbers the subkey yields
bern_advance_state(c, tm, draws) ==
    LET ks == Split(c.key, 2)
        outputs == sample_bernoulli(draws, c.inputs)
    IN  [c EXCEPT !.outputs = outputs,
                  !.tols = update_times(tm, outputs, c.tols),
                  !.key = ks[1]]

\* BernoulliCell._reset and the resolver's sets
bern_reset(c) ==
    [c EXCEPT !.inputs = NoRow, !.outputs = Const(c.n_units, 0),
              !.tols = Const(c.n_units, 0)]

BernFrame == <<heb, lif, lat, stp, slif, archive, args, log>>

BernAdvance ==
    /\ bern.built
    /\ t < MaxSteps
    /\ \E inp \in [1..bern.n_units -> PVals],
          draws \in [1..bern.n_units -> Uniforms] :
        bern' = bern_advance_state([bern EXCEPT !.inputs = inp], t, draws)
    /\ drawn' = Append(drawn, Split(bern.key, 2)[2])
    /\ t' = t + 1
    /\ prev' = bern
    /\ op' = "advance"
    /\ UNCHANGED BernFrame

BernReset ==
    /\ bern.built
    /\ op # "reset"
    /\ bern' = bern_reset(bern)
    /\ prev' = bern
    /\ op' = "reset"
    /\ UNCHANGED <<t, drawn, BernFrame>>

BernInit ==
    /\ bern \in {BernNew(BernUnits, root) : root \in Roots}
    /\ heb = Absent
    /\ lif = Absent
    /\ lat = Absent
    /\ stp = Absent
    /\ slif = Absent
    /\ archive = NoFile
    /\ t = 0
    /\ op = "init"
    /\ args = NoArgs
    /\ prev = Absent
    /\ drawn = <<>>
    /\ log = <<>>

BernNext ==
    \/ BernAdvance
    \/ BernReset

BernSpec == BernInit /\ [][BernNext]_vars

(* =============================== LatencyCell =========================== *)
(* Arrays of shape (batch_size, n_units) are rows of n_units entries.      *)
(* Input intensities, tau, the threshold and the target spike times are    *)
(* fixed-point numbers (spike times: Q units per ms); the clock t is in    *)
(* whole milliseconds.                                                     *)

\* eps = 1e-7, the numerical error control factor of the logarithmic code:
\* the smallest positive number of the fixed-point grid
Eps == 1

\* the constructor arguments of the encoders the model builds
LatConfigs ==
    {[n_units |-> 2, tau |-> 4 * Q, threshold |-> Q \div 10,
      first_spike_time |-> f, linearize |-> lin, normalize |-> nrm,
      num_steps |-> 5 * Q] :
        f \in {0, Q}, lin \in BOOLEAN, nrm \in BOOLEAN}

\* the intensities a unit may be fed: none, below the threshold, at the
\* threshold and above it
LatVals == {0, Q \div 20, Q \div 10, Q \div 2, Q}

Min(a, b) == IF a < b THEN a ELSE b

Max(a, b) == IF a > b THEN a ELSE b

\* the largest entry of a row
MaxOf(r) == CHOOSE x \in {r[u] : u \in 1..Len(r)} : \A u \in 1..Len(r) : r[u] <= x

\* jnp.round of a fixed-point number, in whole units: to the nearest
\* integer, a half to the even one
RoundHalfEven(x) ==
    LET f == x \div Q
        r == x % Q
    IN  IF 2 * r < Q THEN f
        ELSE IF 2 * r > Q THEN f + 1
        ELSE IF f % 2 = 0 THEN f ELSE f + 1

\* log(x) for 1 <= x < 2 in fixed point, by the series of 2 * atanh
LnSeries(x) ==
    LET z == RoundDiv((x - Q) * Q, x + Q)
        z2 == Mul(z, z)
        z3 == Mul(z2, z)
        z5 == Mul(z3, z2)
        z7 == Mul(z5, z2)
    IN  2 * (z + RoundDiv(z3, 3) + RoundDiv(z5, 5) + RoundDiv(z7, 7))

\* jnp.log(x) for x >= 1 in fixed point
RECURSIVE Ln(_)
Ln(x) == IF x >= 2 * Q THEN LnSeries(2 * Q) + Ln(RoundDiv(x, 2)) ELSE LnSeries(x)

clamp_min(x, lo) == Max(x, lo)

clamp_max(x, hi) == Min(x, hi)

\* the linear code with the latency rising with the intensity
calc_spike_times_linear_rising(data, tau, thr, first_spk_t, num_steps, normalize) ==
    LET tau_ == IF normalize THEN num_steps - Q - first_spk_t ELSE tau
        max_bound == Mul(tau_, thr - Q)
    IN  [u \in 1..Len(data) |->
            clamp_max(Mul(tau_, data[u] - Q), max_bound) + first_spk_t]

calc_spike_times_linear(data, tau, thr, first_spk_t, num_steps, normalize) ==
    LET tau_ == IF normalize THEN num_steps - Q - first_spk_t ELSE tau
        stimes(u) == Mul(-tau_, data[u] - Q)
        max_bound == Mul(-tau_, thr - Q)
    IN  [u \in 1..Len(data) |-> clamp_max(stimes(u), max_bound) + first_spk_t]

\* the normalization of the logarithmic code to num_steps
normalize_times(stimes, first_spk_t, num_steps) ==
    LET term1 == [u \in 1..Len(stimes) |-> stimes[u] - first_spk_t]
        term2 == num_steps - first_spk_t - Q
        term3 == MaxOf(term1)
    IN  [u \in 1..Len(stimes) |->
            Mul(term1[u], RoundDiv(term2 * Q, term3)) + first_spk_t]

\* the logarithmic code with the sign of the logarithm flipped
calc_spike_times_nonlinear_flipped(data, tau, thr, first_spk_t, eps, num_steps, normalize) ==
    LET data_(u) == clamp_min(data[u], thr + eps)
        raw(u) == Ln(RoundDiv(data_(u) * Q, data_(u) - thr))
    IN  [u \in 1..Len(data) |-> Mul(-raw(u), tau) + first_spk_t]

calc_spike_times_nonlinear(data, tau, thr, first_spk_t, eps, num_steps, normalize) ==
    LET data_(u) == clamp_min(data[u], thr + eps)
        raw(u) == Ln(RoundDiv(data_(u) * Q, data_(u) - thr))
        stimes == [u \in 1..Len(data) |-> Mul(raw(u), tau) + first_spk_t]
    IN  IF normalize THEN normalize_times(stimes, first_spk_t, num_steps)
        ELSE stimes

\* extract_spike at time tm (in ms)
extract_spike(spk_times, tm, mask) ==
    LET fired(u) == IF RoundHalfEven(spk_times[u]) <= tm THEN 1 ELSE 0
        spikes_t == [u \in 1..Len(mask) |-> fired(u) * (1 - mask[u])]
    IN  [spikes |-> spikes_t,
         mask |-> [u \in 1..Len(mask) |->
                      mask[u] + (1 - mask[u]) * spikes_t[u]]]

\* LatencyCell.__init__: no compartment named mask is created
LatNew(cfg, root) ==
    [built |-> TRUE, n_units |-> cfg.n_units, tau |-> cfg.tau,
     threshold |-> cfg.threshold, first_spike_time |-> cfg.first_spike_time,
     linearize |-> cfg.linearize, normalize |-> cfg.normalize,
     num_steps |-> cfg.num_steps, target_spike_times |-> NoRow,
     mask_ |-> NoRow,
     compartments |-> {"inputs", "outputs", "tols", "key", "targ_sp_times"},
     inputs |-> NoRow, outputs |-> Const(cfg.n_units, 0),
     tols |-> Const(cfg.n_units, 0), key |-> root,
     targ_sp_times |-> Const(cfg.n_units, 0)]

lat_pure_calc_spike_times(c) ==
    IF c.linearize
    THEN calc_spike_times_linear(c.inputs, c.tau, c.threshold,
                                 c.first_spike_time, c.num_steps, c.normalize)
    ELSE calc_spike_times_nonlinear(c.inputs, c.tau, c.threshold,
                                    c.first_spike_time, Eps, c.num_steps,
                                    c.normalize)

\* calc_spike_times on the cell c (its inputs gathered)
lat_calc_spike_times(c) ==
    [c EXCEPT !.targ_sp_times = lat_pure_calc_spike_times(c)]

\* pure_advance at time tm and the sets of advance; tols is returned as it
\* was given
lat_advance(c, tm) ==
    LET ks == Split(c.key, 2)
        r == extract_spike(c.targ_sp_times, tm, c.mask)
    IN  [c EXCEPT !.outputs = r.spikes, !.tols = c.tols, !.mask = r.mask,
                  !.targ_sp_times = c.targ_sp_times, !.key = ks[1]]

\* the compartments the resolver of advance gathers for pure_advance
LatAdvanceReads == {"key", "inputs", "mask", "targ_sp_times", "tols"}

\* pure_reset
lat_pure_reset(batch_size, n_units) ==
    <<NoRow, Const(n_units, 0), Const(n_units, 0), Const(n_units, 0),
      Const(n_units, 0)>>

\* the parameters of reset after self
LatResetParams == <<"inputs", "outputs", "tols", "mask">>

\* the body of reset: it sets inputs, outputs and tols, then reaches for
\* the mask
lat_reset(c, vals) ==
    [c EXCEPT !.inputs = vals[1], !.outputs = vals[2], !.tols = vals[3]]

LatFrame == <<heb, lif, bern, stp, slif, archive, args, drawn>>

\* the spike times are computed from the intensities clamped to the cell,
\* before a spike train is processed (at start)
LatCalcSpikeTimes ==
    /\ lat.built
    /\ log = <<>>
    /\ \E data \in [1..lat.n_units -> LatVals] :
        lat' = lat_calc_spike_times([lat EXCEPT !.inputs = data])
    /\ log' = <<>>
    /\ prev' = lat
    /\ op' = "calc_spike_times"
    /\ UNCHANGED <<t, LatFrame>>

\* one step of the simulation at time t: advance raises when a compartment
\* it gathers does not exist, and then sets nothing
LatAdvance ==
    /\ lat.built
    /\ t < MaxSteps
    /\ IF LatAdvanceReads \subseteq lat.compartments
       THEN lat' = lat_advance(lat, t) /\ op' = "advance"
       ELSE lat' = lat /\ op' = "advance_error"
    /\ log' = Append(log, [t |-> t, s |-> lat'.outputs])
    /\ t' = t + 1
    /\ prev' = lat
    /\ UNCHANGED LatFrame

\* reset: the values of pure_reset are bound to the parameters of reset,
\* which raises when their numbers differ, and then sets nothing
LatReset ==
    /\ lat.built
    /\ op # "reset_error"
    /\ LET vals == lat_pure_reset(1, lat.n_units)
       IN  IF Len(vals) = Len(LatResetParams)
           THEN lat' = lat_reset(lat, vals) /\ op' = "reset"
           ELSE lat' = lat /\ op' = "reset_error"
    /\ prev' = lat
    /\ UNCHANGED <<t, log, LatFrame>>

LatInit ==
    /\ lat \in {LatNew(cfg, root) : cfg \in LatConfigs, root \in {<<0>>}}
    /\ heb = Absent
    /\ lif = Absent
    /\ bern = Absent
    /\ stp = Absent
    /\ slif = Absent
    /\ archive = NoFile
    /\ t = 0
    /\ op = "init"
    /\ args = NoArgs
    /\ prev = Absent
    /\ drawn = <<>>
    /\ log = <<>>

LatNext ==
    \/ LatCalcSpikeTimes
    \/ LatAdvance
    \/ LatReset

LatencySpec == LatInit /\ [][LatNext]_vars

\* the cell with the spike mask pure_advance asks for handed to it: a
\* compartment mask holding zeros is attached after construction
LatMasked(cfg, root) ==
    [mask |-> Const(cfg.n_units, 0)]
        @@ [LatNew(cfg, root) EXCEPT !.compartments = @ \cup {"mask"}]

LatMaskedInit ==
    /\ lat \in {LatMasked(cfg, root) : cfg \in LatConfigs, root \in {<<0>>}}
    /\ heb = Absent
    /\ lif = Absent
    /\ bern = Absent
    /\ stp = Absent
    /\ slif = Absent
    /\ archive = NoFile
    /\ t = 0
    /\ op = "init"
    /\ args = NoArgs
    /\ prev = Absent
    /\ drawn = <<>>
    /\ log = <<>>

LatMaskedSpec == LatMaskedInit /\ [][LatNext]_vars

(* ============================= STPDenseSynapse ========================= *)
(* All arrays are matrices (Mat); the operators of jnp broadcast them: an  *)
(* axis of length 1 is stretched to the length of the other operand's, and *)
(* operands that cannot be broadcast raise.                                *)

\* the result of an array operation that raised
Raised == [kind |-> "raised", rows |-> <<>>]

NRows(T) == Len(T.rows)

NCols(T) == Len(T.rows[1])

Zeros(r, c) == Mat([i \in 1..r |-> [k \in 1..c |-> 0]])

\* the operands of an elementwise operator can be broadcast
BroadcastOk(A, B) ==
    /\ A # Raised
    /\ B # Raised
    /\ NRows(A) = NRows(B) \/ NRows(A) = 1 \/ NRows(B) = 1
    /\ NCols(A) = NCols(B) \/ NCols(A) = 1 \/ NCols(B) = 1

\* entry (i, k) of A stretched to a larger shape
At(A, i, k) ==
    A.rows[IF NRows(A) = 1 THEN 1 ELSE i][IF NCols(A) = 1 THEN 1 ELSE k]

\* the shape two operands are broadcast to
BroadcastRows(A, B) == 1..Max(NRows(A), NRows(B))

BroadcastCols(A, B) == 1..Max(NCols(A), NCols(B))

\* A + B
BAdd(A, B) ==
    IF ~BroadcastOk(A, B) THEN Raised
    ELSE Mat([i \in BroadcastRows(A, B) |-> [k \in BroadcastCols(A, B) |->
                 At(A, i, k) + At(B, i, k)]])

\* A - B
BSub(A, B) ==
    IF ~BroadcastOk(A, B) THEN Raised
    ELSE Mat([i \in BroadcastRows(A, B) |-> [k \in BroadcastCols(A, B) |->
                 At(A, i, k) - At(B, i, k)]])

\* A * B
BMul(A, B) ==
    IF ~BroadcastOk(A, B) THEN Raised
    ELSE Mat([i \in BroadcastRows(A, B) |-> [k \in BroadcastCols(A, B) |->
                 Mul(At(A, i, k), At(B, i, k))]])

\* a Python number as an operand
Num(x) == Mat(<<<<x>>>>)

\* jnp.sum(A, axis=0, keepdims=True)
SumAxis0(A) ==
    IF A = Raised THEN Raised
    ELSE Mat(<<[k \in 1..NCols(A) |->
                  SumSeq([i \in 1..NRows(A) |-> A.rows[i][k]])]>>)

\* jnp.matmul(A, B)
Matmul(A, B) ==
    IF A = Raised \/ B = Raised \/ NCols(A) # NRows(B) THEN Raised
    ELSE Mat([i \in 1..NRows(A) |-> [k \in 1..NCols(B) |->
                 SumSeq([m \in 1..NCols(A) |->
                            Mul(A.rows[i][m], B.rows[m][k])])]])

\* the constructor arguments of the synapses the model builds (bias: a
\* bias_init kernel is given)
STPConfigs ==
    {[shape |-> shp, resist_scale |-> Q, tau_f |-> 4, tau_d |-> td,
      bias |-> b] :
        shp \in {<<2, 2>>, <<1, 2>>, <<2, 3>>}, td \in {0, 2},
        b \in BOOLEAN}

\* DenseSynapse.__init__: W and b are the matrices initialize_params draws;
\* without a bias kernel the biases are 0
DenseSynapseNew(cfg, root, W, b) ==
    [built |-> TRUE, shape |-> cfg.shape, Rscale |-> cfg.resist_scale,
     bias |-> cfg.bias,
     inputs |-> Zeros(1, cfg.shape[1]), outputs |-> Zeros(1, cfg.shape[2]),
     weights |-> W, biases |-> IF cfg.bias THEN b ELSE Num(0), key |-> root]

\* STPDenseSynapse.__init__: U is the matrix initialize_params draws
STPNew(cfg, root, W, b, U) ==
    DenseSynapseNew(cfg, root, W, b) @@
    [tau_f |-> cfg.tau_f, tau_d |-> cfg.tau_d, resources |-> U,
     u |-> Zeros(1, cfg.shape[1]), x |-> Zeros(1, cfg.shape[1])]

\* the resources matrix: initialize_params over [0.125, 0.175]
InitializeResources(shp) ==
    Runs("mat", shp[1], shp[2], <<Q \div 8, (7 * Q) \div 40>>)

\* the facilitation: u - u * (1./tau_f) + (resources * (1. - u)) * s, summed
\* over axis 0
facilitation(tau_f, resources, u, s) ==
    LET decayed == BSub(u, BMul(u, Num(RoundDiv(Q, tau_f))))
        gained == BMul(BMul(resources, BSub(Num(Q), u)), s)
    IN  SumAxis0(BAdd(decayed, gained))

\* a depression that refills the resources at once when tau_d is not
\* positive
depression_refill(tau_d, u, x, s) ==
    IF tau_d > 0
    THEN BSub(BAdd(x, BMul(BSub(Num(Q), x), Num(RoundDiv(Q, tau_d)))),
              BMul(BMul(u, x), s))
    ELSE BAdd(x, BSub(Num(Q), x))

\* the depression: x + (1. - x) * (1./tau_d) - u * x * s when tau_d > 0
depression(tau_d, u, x, s) ==
    IF tau_d > 0
    THEN BSub(BAdd(x, BMul(BSub(Num(Q), x), Num(RoundDiv(Q, tau_d)))),
              BMul(BMul(u, x), s))
    ELSE x

\* STPDenseSynapse._advance_state
stp_advance_state(tau_f, tau_d, Rscale, inputs, weights, biases, resources, u, x) ==
    LET s == inputs
        u_ == facilitation(tau_f, resources, u, s)
        weights_dyn == BMul(BMul(weights, u_), x)
        x_ == depression(tau_d, u_, x, s)
        outputs == BAdd(Matmul(inputs, BMul(weights_dyn, Num(Rscale))),
                        biases)
    IN  [outputs |-> outputs, u |-> u_, x |-> x_]

\* _advance_state returned its three arrays
STPReturned(r) == r.outputs # Raised /\ r.u # Raised /\ r.x # Raised

\* a reset that makes every resource available
stp_reset_replenished(c, batch_size) ==
    [c EXCEPT !.inputs = Zeros(batch_size, c.shape[1]),
              !.outputs = Zeros(batch_size, c.shape[2]),
              !.u = Zeros(batch_size, c.shape[1]),
              !.x = Mat([b \in 1..batch_size |->
                           [i \in 1..c.shape[1] |-> Q]])]

\* STPDenseSynapse._reset
stp_reset(c, batch_size) ==
    [c EXCEPT !.inputs = Zeros(batch_size, c.shape[1]),
              !.outputs = Zeros(batch_size, c.shape[2]),
              !.u = Zeros(batch_size, c.shape[1]),
              !.x = Zeros(batch_size, c.shape[1])]

STPFrame == <<heb, lif, bern, lat, slif, archive, args, drawn, log>>

\* one step of the simulation: the spikes are gathered, the synapse
\* advances; when _advance_state raises nothing is set
STPAdvance ==
    /\ stp.built
    /\ t < MaxSteps
    /\ \E inp \in Rows(stp.shape[1], ActVals) :
        LET r == stp_advance_state(stp.tau_f, stp.tau_d, stp.Rscale, inp,
                                   stp.weights, stp.biases, stp.resources,
                                   stp.u, stp.x)
        IN  IF STPReturned(r)
            THEN /\ stp' = [stp EXCEPT !.inputs = inp, !.outputs = r.outputs,
                                       !.u = r.u, !.x = r.x]
                 /\ op' = "advance"
            ELSE /\ stp' = [stp EXCEPT !.inputs = inp]
                 /\ op' = "advance_error"
    /\ t' = t + 1
    /\ prev' = stp
    /\ UNCHANGED STPFrame

STPReset ==
    /\ stp.built
    /\ op # "reset"
    /\ stp' = stp_reset(stp, 1)
    /\ prev' = stp
    /\ op' = "reset"
    /\ UNCHANGED <<t, STPFrame>>

\* the synapses built with the arguments cfg: the weights and the biases
\* one matrix each, the resources as drawn
STPBuilt(cfg) ==
    LET W == Mat([i \in 1..cfg.shape[1] |->
                     [k \in 1..cfg.shape[2] |-> Q \div 2]])
        b == Mat(<<[k \in 1..cfg.shape[2] |-> Q \div 10]>>)
    IN  {STPNew(cfg, <<0>>, W, b, U) : U \in InitializeResources(cfg.shape)}

STPInit ==
    /\ stp \in UNION {STPBuilt(cfg) : cfg \in STPConfigs}
    /\ heb = Absent
    /\ lif = Absent
    /\ bern = Absent
    /\ lat = Absent
    /\ slif = Absent
    /\ archive = NoFile
    /\ t = 0
    /\ op = "init"
    /\ args = NoArgs
    /\ prev = Absent
    /\ drawn = <<>>
    /\ log = <<>>

STPNext ==
    \/ STPAdvance
    \/ STPReset

STPSpec == STPInit /\ [][STPNext]_vars

(* ================================ SLIFCell ============================= *)
(* Arrays of shape (batch_size, n_units) are rows of n_units entries; a    *)
(* compartment or an attribute holding None, or not yet assigned, is       *)
(* NoRow.                                                                  *)

\* the constructor arguments of the populations the model builds
SLIFConfigs ==
    {[n_units |-> 2, tau_m |-> 2, R_m |-> Q, thr |-> Q \div 2,
      inhibit_R |-> 0, thr_persist |-> p, thrGain |-> Q \div 10,
      thrLeak |-> 0, rho_b |-> 0, refract_T |-> rT,
      sticky_spikes |-> FALSE, thr_jitter |-> Q \div 20] :
        p \in BOOLEAN, rT \in {0, 1}}

\* the initial thresholds: thr plus a uniform jitter in [-thr_jitter,
\* thr_jitter] per unit
SLIFThresholds(cfg) ==
    {[u \in 1..cfg.n_units |-> cfg.thr + d[u]] :
        d \in {[u \in 1..cfg.n_units |-> (2 * (u % 2) - 1) * g] :
                  g \in {-cfg.thr_jitter, cfg.thr_jitter \div 2}}}

\* SLIFCell.__init__ (directory is None); the inhibitory weights play no
\* part in reset and are left out
SLIFNew(cfg, root, threshold0) ==
    [built |-> TRUE, n_units |-> cfg.n_units, tau_m |-> cfg.tau_m,
     R_m |-> cfg.R_m, refract_T |-> cfg.refract_T, v_min |-> -3 * Q,
     sticky_spikes |-> cfg.sticky_spikes, inh_R |-> cfg.inhibit_R,
     rho_b |-> cfg.rho_b, thr_persist |-> cfg.thr_persist,
     thrGain |-> cfg.thrGain, thrLeak |-> cfg.thrLeak,
     thr_jitter |-> cfg.thr_jitter, threshold0 |-> threshold0,
     compartments |-> {"key", "j", "s", "tols", "v", "thr", "rfr",
                       "surrogate"},
     key |-> Split(Split(root, 2)[1], 2)[1],
     j |-> NoRow, s |-> Const(cfg.n_units, 0), tols |-> NoRow,
     v |-> Const(cfg.n_units, 0), thr |-> threshold0,
     rfr |-> Const(cfg.n_units, cfg.refract_T), surrogate |-> NoRow,
     voltage |-> NoRow, refract |-> NoRow, current |-> NoRow,
     timeOfLastSpike |-> NoRow, spikes |-> NoRow, threshold |-> NoRow]

\* SLIFCell.reset: plain attributes are assigned; the attribute surrogate,
\* which held a compartment, now holds None
slif_reset(c) ==
    [c EXCEPT !.voltage = Const(c.n_units, 0),
              !.refract = Const(c.n_units, c.refract_T),
              !.current = NoRow,
              !.surrogate = NoRow,
              !.compartments = @ \ {"surrogate"},
              !.timeOfLastSpike = Const(c.n_units, 0),
              !.spikes = Const(c.n_units, 0),
              !.threshold = IF c.thr_persist THEN @ ELSE c.threshold0]

\* the currents a population of n units may receive
SLIFCurrents(n) == [1..n -> {0, Q}]

SLIFFrame == <<heb, lif, bern, lat, stp, archive, args, drawn, log>>

\* one step of the simulation: the current is gathered; pure_advance
\* reaches update_times with the tols compartment still holding None, the
\* product with None raises and advance sets nothing
SLIFAdvance ==
    /\ slif.built
    /\ t < MaxSteps
    /\ slif.tols = NoRow
    /\ \E jin \in SLIFCurrents(slif.n_units) : slif' = [slif EXCEPT !.j = jin]
    /\ t' = t + 1
    /\ prev' = slif
    /\ op' = "advance_error"
    /\ UNCHANGED SLIFFrame

SLIFReset ==
    /\ slif.built
    /\ op # "reset"
    /\ slif' = slif_reset(slif)
    /\ prev' = slif
    /\ op' = "reset"
    /\ UNCHANGED <<t, SLIFFrame>>

\* the cells built with the arguments cfg
SLIFBuilt(cfg) ==
    {SLIFNew(cfg, root, thr0) : root \in Roots, thr0 \in SLIFThresholds(cfg)}

SLIFInit ==
    /\ slif \in UNION {SLIFBuilt(cfg) : cfg \in SLIFConfigs}
    /\ heb = Absent
    /\ lif = Absent
    /\ bern = Absent
    /\ lat = Absent
    /\ stp = Absent
    /\ archive = NoFile
    /\ t = 0
    /\ op = "init"
    /\ args = NoArgs
    /\ prev = Absent
    /\ drawn = <<>>
    /\ log = <<>>

SLIFNext ==
    \/ SLIFAdvance
    \/ SLIFReset

SLIFSpec == SLIFInit /\ [][SLIFNext]_vars

(* ------------------------- SLIFCell, the dynamics ---------------------- *)
(* pure_advance is a function of its arguments alone.  It is applied here  *)
(* to the values __init__ builds, with the row of zeros a caller has to    *)
(* pass for tols in place of the None the compartment holds, and slif      *)
(* holds what it returns.                                                  *)

\* the constructor arguments the dynamics are run with
SLIFStepConfigs ==
    {[n_units |-> 2, tau_m |-> 2, R_m |-> Q, thr |-> Q \div 2,
      inhibit_R |-> c[1], thr_persist |-> FALSE, thrGain |-> Q \div 10,
      thrLeak |-> Q \div 10, rho_b |-> c[2], refract_T |-> 2,
      sticky_spikes |-> st, thr_jitter |-> Q \div 20] :
        c \in {<<0, 0>>, <<Q \div 2, 0>>, <<0, (3 * Q) \div 10>>},
        st \in BOOLEAN}

\* the lateral inhibitory weights: uniform in [0.025, 1) off the diagonal,
\* zero on it
InhWeights(n) ==
    [i \in 1..n |-> [k \in 1..n |-> IF i = k THEN 0 ELSE Q \div 2]]

\* spike_fx of secant_lif_estimator: a spike where the voltage is above
\* the threshold
spike_fx(v, v_thr) == [u \in 1..Len(v) |-> IF v[u] > v_thr[u] THEN 1 ELSE 0]

\* d_spike_fx of secant_lif_estimator: the surrogate derivative taken at
\* the current j (its value is kept as the point it is taken at)
d_spike_fx(j) == [at |-> j]

\* sLIFCell.modify_current
slif_modify_current(j, spikes, inh_weights, R_m, inh_R) ==
    LET n == Len(j)
        lateral(u) == SumSeq([i \in 1..n |-> spikes[i] * inh_weights[i][u]])
    IN  [u \in 1..n |->
            IF inh_R > 0 THEN Mul(j[u], R_m) - Mul(lateral(u), inh_R)
            ELSE Mul(j[u], R_m)]

\* sLIFCell._dfv_internal
slif_dfv_internal(j, v, rfr, tau_m, refract_T) ==
    [u \in 1..Len(v) |->
        RoundDiv(-v[u] + j[u], tau_m)
            * (IF rfr[u] >= refract_T THEN 1 ELSE 0)]

\* step_euler(t, x, dfx, dt, params) with dfx = sLIFCell._dfv
slif_step_euler(v, dt, j, rfr, tau_m, refract_T) ==
    LET dv_dt == slif_dfv_internal(j, v, rfr, tau_m, refract_T)
    IN  [u \in 1..Len(v) |-> v[u] + dt * dv_dt[u]]

\* sLIFCell._hyperpolarize
slif_hyperpolarize(v, s) == [u \in 1..Len(v) |-> (1 - s[u]) * v[u]]

\* the sparsity rule without its floor
update_threshold_nofloor(dt, v_thr, spikes, thrGain, thrLeak, rho_b) ==
    [u \in 1..Len(v_thr) |->
        IF rho_b > 0
        THEN v_thr[u] + Mul((Count(spikes) - 1) * Q, rho_b)
        ELSE v_thr[u] + spikes[u] * thrGain - Mul(v_thr[u], thrLeak)]

\* sLIFCell._update_threshold (the batch has one row)
update_threshold(dt, v_thr, spikes, thrGain, thrLeak, rho_b) ==
    [u \in 1..Len(v_thr) |->
        IF rho_b > 0
        THEN Max(v_thr[u] + Mul((Count(spikes) - 1) * Q, rho_b), Q \div 40)
        ELSE v_thr[u] + spikes[u] * thrGain - Mul(v_thr[u], thrLeak)]

\* spikes that are never pinned
update_refract_and_spikes_unpinned(dt, rfr, s, refract_T, sticky_spikes) ==
    [rfr |-> [u \in 1..Len(s) |-> (rfr[u] + dt) * (1 - s[u]) + s[u] * dt],
     s |-> s]

\* sLIFCell._update_refract_and_spikes
update_refract_and_spikes(dt, rfr, s, refract_T, sticky_spikes) ==
    LET mask(u) == IF rfr[u] >= refract_T THEN 1 ELSE 0
    IN  [rfr |-> [u \in 1..Len(s) |->
                     (rfr[u] + dt) * (1 - s[u]) + s[u] * dt],
         s |-> IF sticky_spikes
               THEN [u \in 1..Len(s) |-> s[u] * mask(u) + (1 - mask(u))]
               ELSE s]

\* sLIFCell.run_cell; raw_s is the spike before the pinning (not returned
\* by the code, kept to state properties)
slif_run_cell(dt, j, v, v_thr, tau_m, rfr, refract_T, thrGain, thrLeak, rho_b, sticky_spikes) ==
    LET vi == slif_step_euler(v, dt, j, rfr, tau_m, refract_T)
        spikes == spike_fx(vi, v_thr)
        rs == update_refract_and_spikes(dt, rfr, spikes, refract_T,
                                        sticky_spikes)
    IN  [v |-> slif_hyperpolarize(vi, spikes), s |-> rs.s,
         thr |-> update_threshold(dt, v_thr, spikes, thrGain, thrLeak,
                                  rho_b),
         rfr |-> rs.rfr, raw_s |-> spikes]

\* SLIFCell.pure_advance at time tm with step dt on the values c (its j
\* gathered): it returns j, s, tols, v, thr, rfr, surrogate
slif_pure_advance(c, tm, dt) ==
    LET j_curr == slif_modify_current(c.j, c.s, c.inh_weights, c.R_m,
                                      c.inh_R)
        r == slif_run_cell(dt, j_curr, c.v, c.thr, c.tau_m, c.rfr,
                           c.refract_T, c.thrGain, c.thrLeak, c.rho_b,
                           c.sticky_spikes)
    IN  [c EXCEPT !.j = j_curr, !.s = r.s,
                  !.tols = update_times(tm, r.s, c.tols), !.v = r.v,
                  !.thr = r.thr, !.rfr = r.rfr,
                  !.surrogate = d_spike_fx(j_curr), !.raw_s = r.raw_s]

\* the arguments of pure_advance: what __init__ builds, tols given as
\* zeros
SLIFStepArgs(cfg) ==
    {[inh_weights |-> InhWeights(cfg.n_units),
      raw_s |-> Const(cfg.n_units, 0)]
        @@ [c EXCEPT !.tols = Const(cfg.n_units, 0)] : c \in SLIFBuilt(cfg)}

\* one step: the current is gathered and pure_advance is applied
SLIFPureAdvance ==
    /\ slif.built
    /\ t < MaxSteps
    /\ \E jin \in SLIFCurrents(slif.n_units) :
        slif' = slif_pure_advance([slif EXCEPT !.j = jin], t, 1)
    /\ t' = t + 1
    /\ prev' = slif
    /\ op' = "advance"
    /\ UNCHANGED SLIFFrame

SLIFStepInit ==
    /\ slif \in UNION {SLIFStepArgs(cfg) : cfg \in SLIFStepConfigs}
    /\ heb = Absent
    /\ lif = Absent
    /\ bern = Absent
    /\ lat = Absent
    /\ stp = Absent
    /\ archive = NoFile
    /\ t = 0
    /\ op = "init"
    /\ args = NoArgs
    /\ prev = Absent
    /\ drawn = <<>>
    /\ log = <<>>

SLIFStepNext == SLIFPureAdvance

SLIFStepSpec == SLIFStepInit /\ [][SLIFStepNext]_vars

(* ============================== persistence ============================ *)
(* The archive of a component is the .npz file named after it: a record of *)
(* the arrays saved under their keys.  load is given the file found in the *)
(* directory: the archive as saved, or one lacking one of its keys.        *)

\* a component whose persistence is exercised advances at most this many
\* times
PersistSteps == 1

\* the function f on the keys K alone
Restrict(f, K) == [k \in K |-> f[k]]

\* an archive holding the arrays data
File(data) == [exists |-> TRUE, data |-> data]

\* the files a directory may hold in place of the archive a
Truncations(a) ==
    IF a.exists
    THEN {a} \cup {File(Restrict(a.data, DOMAIN a.data \ {k})) :
                      k \in DOMAIN a.data}
    ELSE {NoFile}

\* LIFCell.save
lif_save(c) == File([threshold_theta |-> c.thr_theta, key |-> c.key])

\* a load that never restores the key
lif_load_unseeded(c, file, seeded) ==
    IF ~file.exists \/ "threshold_theta" \notin DOMAIN file.data
    THEN [cell |-> c, raised |-> TRUE]
    ELSE [cell |-> [c EXCEPT !.thr_theta = file.data.threshold_theta],
          raised |-> FALSE]

\* LIFCell.load: the cell it leaves and whether it raised
lif_load(c, file, seeded) ==
    IF ~file.exists \/ "threshold_theta" \notin DOMAIN file.data
    THEN [cell |-> c, raised |-> TRUE]
    ELSE LET c1 == [c EXCEPT !.thr_theta = file.data.threshold_theta]
         IN  IF ~seeded THEN [cell |-> c1, raised |-> FALSE]
             ELSE IF "key" \notin DOMAIN file.data
             THEN [cell |-> c1, raised |-> TRUE]
             ELSE [cell |-> [c1 EXCEPT !.key = file.data.key],
                   raised |-> FALSE]

\* the population whose persistence is exercised
PersistLIFConfigs ==
    {[n_units |-> 2, tau_m |-> 2, R_m |-> Q, thr |-> -52 * Q,
      v_rest |-> -65 * Q, v_reset |-> -60 * Q, tau_theta |-> 2,
      theta_plus |-> Q \div 20, refract_T |-> 2, one_spike |-> TRUE,
      dt |-> 1]}

\* a step of the cell between a save and a load
PersistLIFAdvance == t < PersistSteps /\ LIFAdvance

LIFSave ==
    /\ lif.built
    /\ archive # lif_save(lif)
    /\ archive' = lif_save(lif)
    /\ args' = NoArgs
    /\ prev' = lif
    /\ op' = "save"
    /\ UNCHANGED <<lif, heb, bern, lat, stp, slif, t, drawn, log>>

LIFLoad ==
    /\ lif.built
    /\ \E file \in Truncations(archive), seeded \in BOOLEAN :
        LET r == lif_load(lif, file, seeded)
        IN  /\ lif' = r.cell
            /\ op' = IF r.raised THEN "load_error" ELSE "load"
            /\ args' = [seeded |-> seeded, file |-> file]
    /\ prev' = lif
    /\ UNCHANGED <<archive, heb, bern, lat, stp, slif, t, drawn, log>>

\* STPDenseSynapse.save
stp_save(c) ==
    IF c.bias
    THEN File([weights |-> c.weights, biases |-> c.biases,
               resources |-> c.resources])
    ELSE File([weights |-> c.weights, resources |-> c.resources])

\* STPDenseSynapse.load: the synapse it leaves and whether it raised
stp_load(c, file) ==
    IF ~file.exists \/ "weights" \notin DOMAIN file.data
    THEN [syn |-> c, raised |-> TRUE]
    ELSE LET c1 == [c EXCEPT !.weights = file.data.weights]
         IN  IF "resources" \notin DOMAIN file.data
             THEN [syn |-> c1, raised |-> TRUE]
             ELSE LET c2 == [c1 EXCEPT !.resources = file.data.resources]
                  IN  IF "biases" \in DOMAIN file.data
                      THEN [syn |-> [c2 EXCEPT !.biases = file.data.biases],
                            raised |-> FALSE]
                      ELSE [syn |-> c2, raised |-> FALSE]

\* the archive an earlier run of a synapse of the same shape left in the
\* directory, with other parameter values
EarlierArchive(c) ==
    File([weights |-> Mat([i \in 1..c.shape[1] |->
                              [k \in 1..c.shape[2] |-> Q \div 4]]),
          biases |-> Mat(<<[k \in 1..c.shape[2] |-> Q \div 5]>>),
          resources |-> Mat([i \in 1..c.shape[1] |->
                                [k \in 1..c.shape[2] |-> Q \div 8]])])

\* the synapses whose persistence is exercised
PersistSTPConfigs ==
    {[shape |-> <<2, 2>>, resist_scale |-> Q, tau_f |-> 4, tau_d |-> 0,
      bias |-> b] : b \in BOOLEAN}

\* a step of the synapse between a save and a load
PersistSTPAdvance == t < PersistSteps /\ STPAdvance

STPSave ==
    /\ stp.built
    /\ archive # stp_save(stp)
    /\ archive' = stp_save(stp)
    /\ args' = NoArgs
    /\ prev' = stp
    /\ op' = "save"
    /\ UNCHANGED <<stp, heb, lif, bern, lat, slif, t, drawn, log>>

STPLoad ==
    /\ stp.built
    /\ \E file \in Truncations(archive) :
        LET r == stp_load(stp, file)
        IN  /\ stp' = r.syn
            /\ op' = IF r.raised THEN "load_error" ELSE "load"
            /\ args' = [file |-> file]
    /\ prev' = stp
    /\ UNCHANGED <<archive, heb, lif, bern, lat, slif, t, drawn, log>>

PersistInit ==
    \/ LIFStart(PersistLIFConfigs)
    \/ /\ stp \in UNION {STPBuilt(cfg) : cfg \in PersistSTPConfigs}
       /\ heb = Absent
       /\ lif = Absent
       /\ bern = Absent
       /\ lat = Absent
       /\ slif = Absent
       /\ archive \in {NoFile, EarlierArchive(stp)}
       /\ t = 0
       /\ op = "init"
       /\ args = NoArgs
       /\ prev = Absent
       /\ drawn = <<>>
       /\ log = <<>>

PersistNext ==
    \/ PersistLIFAdvance
    \/ LIFReset
    \/ LIFSave
    \/ LIFLoad
    \/ PersistSTPAdvance
    \/ STPReset
    \/ STPSave
    \/ STPLoad

PersistSpec == PersistInit /\ [][PersistNext]_vars

(* ======================= the cells, one per behaviour ================== *)

CellsInit == LIFInit \/ BernInit

CellsNext == LIFNext \/ BernNext

CellsSpec == CellsInit /\ [][CellsNext]_vars

(* ============================== properties ============================= *)

\* every entry of T lies in the bounds configured for the synapse h
WithinBounds(h, T) ==
    \A x \in Entries(T) :
        /\ x <= h.w_bounds
        /\ x >= (IF h.is_nonnegative THEN 0 ELSE -h.w_bounds)

(* C1: with w_bound = B > 0, enforce_constraints returns a matrix whose    *)
(* entries all lie in [0, B] when is_nonnegative, in [-B, B] otherwise     *)
(* (checked on every parameter value the optimizer returned and on the     *)
(* weights held), and the weights compartment lies in these bounds after   *)
(* every post_evolve.                                                      *)
C1_WeightBound ==
    (heb.built /\ heb.w_bounds > 0) =>
        /\ WithinBounds(heb, enforce_constraints(heb.weights, heb.w_bounds,
                                                 heb.is_nonnegative))
        /\ heb.new_theta # <<>> =>
              WithinBounds(heb, enforce_constraints(heb.new_theta[1],
                                                    heb.w_bounds,
                                                    heb.is_nonnegative))
        /\ op = "post_evolve" => WithinBounds(heb, heb.weights)

\* post_evolve has run on a non-negative bounded synapse whose optimizer
\* returned entries below 0 and above the bound
C1_Witness ==
    /\ heb.built
    /\ op = "post_evolve"
    /\ heb.w_bounds > 0
    /\ heb.is_nonnegative
    /\ heb.new_theta # <<>>
    /\ \E x \in Entries(heb.new_theta[1]) : x < 0
    /\ \E x \in Entries(heb.new_theta[1]) : x > heb.w_bounds

(* C2: after post_evolve the weights compartment equals the optimizer's    *)
(* new weights (new_theta's first element) clipped to the bounds, and the  *)
(* biases compartment equals the optimizer's new biases (its second).      *)
C2_PostEvolveCommits ==
    (heb.built /\ op = "post_evolve" /\ heb.new_theta # <<>>) =>
        /\ heb.weights = enforce_constraints(heb.new_theta[1], heb.w_bounds,
                                             heb.is_nonnegative)
        /\ heb.biases = heb.new_theta[2]

(* C3: in every state reachable from construction by advance, pre_evolve,  *)
(* optimizer update, post_evolve and reset, the weights compartment holds  *)
(* a matrix of shape (n_in, n_out).                                        *)
C3_WeightsShape ==
    heb.built => (heb.weights.kind = "mat" /\ Shape(heb.weights) = heb.shape)

\* the elements of a sequence
Range(q) == {q[i] : i \in 1..Len(q)}

\* the LIF cell has just advanced
LIFStepped == lif.built /\ op = "advance"

\* the Bernoulli cell has just advanced
BernStepped == bern.built /\ op = "advance"

C5_RefractoryByEmittedSpike ==
    LIFStepped =>
        \A u \in 1..lif.n_units :
            lif.rfr[u] = IF lif.s[u] = 1 THEN 0 ELSE prev.rfr[u] + lif.dt

(* C5 amended: after every advance_state step, one_spike enabled or not,   *)
(* rfr' is 0 for a unit that crossed threshold in the step (its raw spike  *)
(* s_raw is 1) and rfr + dt otherwise; with one_spike disabled the emitted *)
(* spike s equals s_raw.                                                   *)
C5_RefractoryByRawSpike ==
    LIFStepped =>
        /\ \A u \in 1..lif.n_units :
              lif.rfr[u] = IF lif.s_raw[u] = 1 THEN 0
                           ELSE prev.rfr[u] + lif.dt
        /\ ~lif.one_spike => lif.s = lif.s_raw

\* a unit crossed threshold, lost the arbitration and is refractory, while
\* another unit's counter moved on by dt
C5_Witness ==
    /\ LIFStepped
    /\ lif.one_spike
    /\ \E u \in 1..lif.n_units :
          lif.s_raw[u] = 1 /\ lif.s[u] = 0 /\ lif.rfr[u] = 0
    /\ \E u \in 1..lif.n_units :
          lif.s_raw[u] = 0 /\ lif.rfr[u] = prev.rfr[u] + lif.dt

\* the time the step that just ran was given
StepTime == IF lif.built THEN t - lif.dt ELSE t - 1

(* C6: after every advance_state step at time t of LIFCell and of          *)
(* BernoulliCell, tols' of a unit is t if its emitted spike (s, resp.      *)
(* outputs) is 1 and its previous tols if it is 0.                         *)
C6_TimeOfLastSpike ==
    /\ LIFStepped =>
          \A u \in 1..lif.n_units :
              lif.tols[u] = IF lif.s[u] = 1 THEN StepTime ELSE prev.tols[u]
    /\ BernStepped =>
          \A u \in 1..bern.n_units :
              bern.tols[u] = IF bern.outputs[u] = 1 THEN StepTime
                             ELSE prev.tols[u]

\* a unit that spiked before spikes again at a later time while another
\* unit, silent in this step, keeps the time of its earlier spike
C6_Witness ==
    /\ BernStepped
    /\ \E u, w \in 1..bern.n_units :
          /\ bern.outputs[u] = 1
          /\ prev.tols[u] > 0
          /\ bern.tols[u] = StepTime
          /\ StepTime > prev.tols[u]
          /\ bern.outputs[w] = 0
          /\ bern.tols[w] = prev.tols[w]
          /\ prev.tols[w] > 0

\* the voltage a unit reaches from v by the leak alone, then reset to
\* v_reset if it crossed the threshold
LeakOnly(c, u) ==
    LET leak == c.v[u] + c.dt * RoundDiv(c.v_rest - c.v[u], c.tau_m)
    IN  IF leak > c.thr + c.thr_theta[u] THEN c.v_reset ELSE leak

(* C7: from any reachable state, two advance_state steps that differ only  *)
(* in the input current j leave every unit with rfr < refract_T at the     *)
(* same voltage and the same raw spike: its voltage evolves by the leak    *)
(* term only.                                                              *)
C7_RefractoryExclusion ==
    lif.built =>
        \A j1, j2 \in JVecs(lif.n_units) : \A draw \in Uniforms :
            LET c1 == advance_state([lif EXCEPT !.j = j1], t, draw)
                c2 == advance_state([lif EXCEPT !.j = j2], t, draw)
            IN  \A u \in 1..lif.n_units :
                    lif.rfr[u] < lif.refract_T =>
                        /\ c1.v[u] = c2.v[u]
                        /\ c1.s_raw[u] = c2.s_raw[u]
                        /\ c1.v[u] = LeakOnly(lif, u)

\* a step has run in which a refractory unit was fed a current and moved by
\* the leak alone, while an eligible unit moved by its current
C7_Witness ==
    /\ LIFStepped
    /\ \E u, w \in 1..lif.n_units :
          /\ prev.rfr[u] < lif.refract_T
          /\ lif.j[u] > 0
          /\ lif.v[u] = LeakOnly(prev, u)
          /\ lif.v[u] # prev.v[u]
          /\ prev.rfr[w] >= lif.refract_T
          /\ lif.j[w] > 0
          /\ lif.s_raw[w] = 1

\* the cell was built for the scenario and has been driven by the constant
\* current 20 in every step since its construction
ScenarioRun ==
    /\ lif.built
    /\ lif.n_units = 1
    /\ lif.tau_m = 20 /\ lif.R_m = Q /\ lif.refract_T = 5 /\ lif.dt = 1
    /\ lif.v_rest = -65 * Q /\ lif.v_reset = -60 * Q /\ lif.thr = -52 * Q
    /\ Len(log) * lif.dt = t
    /\ \A i \in 1..Len(log) : log[i].j = <<20 * Q>>

(* C8: the single unit with v_rest=-65, v_reset=-60, thr=-52, tau_m=20,    *)
(* R_m=1, refract_T=5, dt=1, started at v=-65, rfr=5, thr_theta=0 and      *)
(* driven by the constant current 20 for 10 steps emits, whatever the key  *)
(* and the draws, a spike on the 1st and on the 7th step and on no other   *)
(* of the 10 steps.                                                        *)
C8_ScenarioTrain ==
    ScenarioRun =>
        \A i \in 1..Len(log) :
            i <= 10 => log[i].s = <<IF i \in {1, 7} THEN 1 ELSE 0>>

\* the scenario has run its 10 steps
C8_Witness ==
    /\ ScenarioRun
    /\ Len(log) = 10
    /\ log[1].s = <<1>>
    /\ log[7].s = <<1>>
    /\ lif.one_spike

(* C9: after every advance_state step of BernoulliCell, whatever the key   *)
(* and the number of steps before, a unit whose input is 1.0 has output 1  *)
(* and a unit whose input is 0.0 has output 0.                             *)
C9_CertainInputs ==
    BernStepped =>
        \A u \in 1..bern.n_units :
            /\ bern.inputs[u] = Q => bern.outputs[u] = 1
            /\ bern.inputs[u] = 0 => bern.outputs[u] = 0

\* inputs [[1.0, 0.0]] gave outputs [[1.0, 0.0]] in two steps running
C9_Witness ==
    /\ BernStepped
    /\ t >= 2
    /\ prev.inputs = <<Q, 0>>
    /\ prev.outputs = <<1, 0>>
    /\ bern.inputs = <<Q, 0>>
    /\ bern.outputs = <<1, 0>>

\* the draws of the cell that was built follow the key discipline: the
\* last step split the stored key, drew with the second part and stored
\* the first; no key was drawn with twice; the stored key was never drawn
\* with
KeyDiscipline(c) ==
    /\ op = "advance" =>
          /\ c.key = Split(prev.key, 2)[1]
          /\ drawn[Len(drawn)] = Split(prev.key, 2)[2]
    /\ \A i, k \in 1..Len(drawn) : i # k => drawn[i] # drawn[k]
    /\ c.key \notin Range(drawn)

(* C10: over any sequence of advance_state calls on BernoulliCell and on   *)
(* LIFCell with one_spike enabled, each call splits the stored key, draws  *)
(* with a subkey and stores the other split result, so the key a draw      *)
(* consumes is never the key stored after the call and never a key an      *)
(* earlier draw consumed.                                                  *)
C10_KeyDiscipline ==
    /\ (lif.built /\ lif.one_spike) => KeyDiscipline(lif)
    /\ bern.built => KeyDiscipline(bern)

\* three draws have been made by a LIF cell with one_spike enabled
C10_Witness ==
    /\ LIFStepped
    /\ lif.one_spike
    /\ Len(drawn) >= 3

\* the latency encoder has computed target spike times for its inputs
LatEncoded == lat.built /\ lat.inputs # NoRow

(* C11: within one encoding (from the spike-time computation on) and over  *)
(* the advance steps taken at increasing times t, each unit emits spike 1  *)
(* on the step whose time equals its rounded target spike time and on no   *)
(* other step.                                                             *)
C11_SpikeAtTarget ==
    LatEncoded =>
        \A i \in 1..Len(log) : \A u \in 1..lat.n_units :
            log[i].s[u] =
                IF RoundHalfEven(lat.targ_sp_times[u]) = log[i].t THEN 1
                ELSE 0

\* the target spike time of the single intensity a under the configuration
\* of the cell c
TimeOf(c, a) == lat_pure_calc_spike_times([c EXCEPT !.inputs = <<a>>])[1]

\* the spike times of the cell have just been computed
LatComputed == lat.built /\ op = "calc_spike_times"

STPStepped == stp.built /\ op = "advance"

(* C14: for STPDenseSynapse configured with tau_d = 0, the resource        *)
(* availability vector x equals its reset value (zeros of shape            *)
(* (batch, n_in)) after any number of advance_state steps with any inputs. *)
C14_ResourcesFrozen ==
    (stp.built /\ stp.tau_d = 0) => stp.x = Zeros(1, stp.shape[1])

\* a synapse with tau_d = 0 has advanced twice on spikes and its release
\* probabilities have grown
C14_Witness ==
    /\ STPStepped
    /\ stp.tau_d = 0
    /\ t >= 2
    /\ \E v \in Entries(stp.inputs) : v = Q
    /\ \E v \in Entries(prev.u) : v > 0
    /\ stp.u # prev.u

\* the update of the claim for input unit i, the resources of the unit
\* being the entry r of its row
STPUnitUpdate(i, r) ==
    LET s == stp.inputs.rows[1][i]
        u0 == prev.u.rows[1][i]
        x0 == prev.x.rows[1][i]
        u1 == u0 - Mul(u0, RoundDiv(Q, stp.tau_f)) + Mul(Mul(r, Q - u0), s)
        x1 == x0 + Mul(Q - x0, RoundDiv(Q, stp.tau_d))
                 - Mul(Mul(stp.u.rows[1][i], x0), s)
    IN  /\ stp.u.rows[1][i] = u1
        /\ stp.tau_d > 0 => stp.x.rows[1][i] = x1

(* C15: each advance_state step with input spikes s computes, per input    *)
(* unit, u' = u - u/tau_f + resources*(1-u)*s and (when tau_d > 0)         *)
(* x' = x + (1-x)/tau_d - u*x*s, keeps u and x of shape (batch, n_in), and *)
(* outputs inputs times (weights*u*x*Rscale) plus biases.                  *)
C15_StepEquations ==
    STPStepped =>
        /\ Shape(stp.u) = <<1, stp.shape[1]>>
        /\ Shape(stp.x) = <<1, stp.shape[1]>>
        /\ Shape(prev.u) = <<1, stp.shape[1]>>
        /\ \A i \in 1..stp.shape[1] :
              \E k \in 1..stp.shape[2] :
                  STPUnitUpdate(i, stp.resources.rows[i][k])
        /\ \A k \in 1..stp.shape[2] :
              stp.outputs.rows[1][k] =
                  SumSeq([i \in 1..stp.shape[1] |->
                      Mul(stp.inputs.rows[1][i],
                          Mul(Mul(Mul(stp.weights.rows[i][k],
                                      stp.u.rows[1][i]),
                                  prev.x.rows[1][i]), stp.Rscale))])
                  + At(stp.biases, 1, k)

(* C16: after LIFCell.reset from any reachable state, for every unit:      *)
(* v = v_rest, j = 0, s = 0, s_raw = 0, rfr = refract_T and tols = 0,      *)
(* while the adaptive threshold thr_theta and the RNG key keep the values  *)
(* they had before the reset.                                              *)
C16_LIFReset ==
    (lif.built /\ op = "reset") =>
        /\ lif.v = Const(lif.n_units, lif.v_rest)
        /\ lif.j = Const(lif.n_units, 0)
        /\ lif.s = Const(lif.n_units, 0)
        /\ lif.s_raw = Const(lif.n_units, 0)
        /\ lif.rfr = Const(lif.n_units, lif.refract_T)
        /\ lif.tols = Const(lif.n_units, 0)
        /\ lif.thr_theta = prev.thr_theta
        /\ lif.key = prev.key

\* a cell that spiked after time 0, is refractory, has adapted its
\* threshold and has split its key was reset
C16_Witness ==
    /\ lif.built
    /\ op = "reset"
    /\ \E u \in 1..lif.n_units :
          /\ prev.tols[u] > 0
          /\ prev.rfr[u] < lif.refract_T
          /\ prev.v[u] # lif.v_rest
          /\ lif.thr_theta[u] > 0
    /\ prev.s # Const(lif.n_units, 0)
    /\ prev.j # Const(lif.n_units, 0)
    /\ Len(lif.key) > 1

(* C17: after SLIFCell.reset from any reachable state, the compartments    *)
(* hold v = 0, s = 0, tols = 0 and rfr = refract_T for every unit; the     *)
(* compartment thr equals the initial threshold0 when thr_persist is False *)
(* and keeps its value from before the reset when thr_persist is True.     *)
C17_SLIFReset ==
    (slif.built /\ op = "reset") =>
        /\ slif.v = Const(slif.n_units, 0)
        /\ slif.s = Const(slif.n_units, 0)
        /\ slif.tols = Const(slif.n_units, 0)
        /\ slif.rfr = Const(slif.n_units, slif.refract_T)
        /\ slif.thr = IF slif.thr_persist THEN prev.thr ELSE slif.threshold0


\* the LIF cell has just loaded, without error, the archive as it was saved
LIFLoaded ==
    /\ lif.built
    /\ op = "load"
    /\ args.file.exists
    /\ DOMAIN args.file.data = {"threshold_theta", "key"}

\* load has left the compartments j, v, s, s_raw, rfr and tols alone
LIFLoadKeepsDynamics ==
    /\ lif.j = prev.j
    /\ lif.v = prev.v
    /\ lif.s = prev.s
    /\ lif.s_raw = prev.s_raw
    /\ lif.rfr = prev.rfr
    /\ lif.tols = prev.tols

(* C18 as stated: saving a LIF cell and later loading the archive restores *)
(* both the adaptive threshold thr_theta and the RNG key to the saved      *)
(* values, and load changes none of j, v, s, s_raw, rfr, tols.             *)
C18_RoundTrip ==
    LIFLoaded =>
        /\ lif.thr_theta = args.file.data.threshold_theta
        /\ lif.key = args.file.data.key
        /\ LIFLoadKeepsDynamics

(* C18 amended: loading the saved archive restores the adaptive threshold  *)
(* thr_theta to the saved value; it restores the RNG key to the saved      *)
(* value only when load is called with seeded = True, and with the default *)
(* seeded = False the key keeps its pre-load value; load changes none of   *)
(* j, v, s, s_raw, rfr, tols.                                              *)
C18_LoadRestores ==
    LIFLoaded =>
        /\ lif.thr_theta = args.file.data.threshold_theta
        /\ lif.key = (IF args.seeded THEN args.file.data.key ELSE prev.key)
        /\ LIFLoadKeepsDynamics

\* a seeded load has brought back a threshold and a key that both had
\* moved on since the save
C18_Witness ==
    /\ LIFLoaded
    /\ args.seeded
    /\ prev.thr_theta # lif.thr_theta
    /\ prev.key # lif.key
    /\ lif.key = args.file.data.key


\* load has just been called on a file that is there
LoadCalled == op \in {"load", "load_error"} /\ args.file.exists

(* C19: for LIFCell.load and STPDenseSynapse.load, if the archive lacks    *)
(* any key the component persists (threshold_theta or key for the LIF      *)
(* cell; weights, resources or biases for a bias-carrying STP synapse),    *)
(* load fails with an error and every compartment of the component still   *)
(* holds its pre-load value.                                               *)
C19_NoPartialLoad ==
    /\ (/\ lif.built
        /\ LoadCalled
        /\ {"threshold_theta", "key"} \ DOMAIN args.file.data # {})
          => (op = "load_error" /\ lif = prev)
    /\ (/\ stp.built
        /\ stp.bias
        /\ LoadCalled
        /\ {"weights", "resources", "biases"} \ DOMAIN args.file.data # {})
          => (op = "load_error" /\ stp = prev)


\* the synapse has just run pre_evolve
HebbEvolved == heb.built /\ op = "pre_evolve"

\* entry (i, k) of the product of transposed (pre * pre_wght) with
\* (post * post_wght), summed over the batch
HebbProduct(h, i, k) ==
    SumSeq([b \in 1..Len(h.pre.rows) |->
               Mul(Mul(h.pre.rows[b][i], h.pre_wght),
                   Mul(h.post.rows[b][k], h.post_wght))])

\* the product scaled by the headroom to the bound, decayed and signed
HebbExpectedDW(h, i, k) ==
    LET W == Elem(h.weights, i, k)
        bounded == IF h.w_bounds > 0
                   THEN Mul(HebbProduct(h, i, k), h.w_bounds - Abs(W))
                   ELSE HebbProduct(h, i, k)
        decayed == IF h.w_decay > 0
                   THEN bounded - Mul(W, h.w_decay)
                   ELSE bounded
    IN  Mul(decayed, h.signVal)

\* dW holds the expected update in every entry
HebbDWAsStated ==
    /\ heb.dW.kind = "mat"
    /\ Shape(heb.dW) = heb.shape
    /\ \A i \in 1..heb.shape[1], k \in 1..heb.shape[2] :
          heb.dW.rows[i][k] = HebbExpectedDW(heb, i, k)

(* C20 as stated: pre_evolve computes dW as the product of transposed      *)
(* (pre*pre_wght) with (post*post_wght), multiplied entrywise by           *)
(* (w_bound - |W|) when w_bound > 0, then reduced by W*w_decay when        *)
(* w_decay > 0, then multiplied by signVal; and computes the bias delta db *)
(* as the column-sum of post.                                              *)
C20_UpdateAsStated ==
    HebbEvolved =>
        /\ HebbDWAsStated
        /\ heb.db = Mat(<<[k \in 1..heb.shape[2] |->
                 SumSeq([b \in 1..Len(heb.post.rows) |->
                            heb.post.rows[b][k]])]>>)

(* C20 amended: dW is computed as stated, and the bias delta db is the     *)
(* column-sum of (post*post_wght) multiplied by signVal.                   *)
C20_UpdateWeighted ==
    HebbEvolved =>
        /\ HebbDWAsStated
        /\ heb.db = Mat(<<[k \in 1..heb.shape[2] |->
                 Mul(SumSeq([b \in 1..Len(heb.post.rows) |->
                                Mul(heb.post.rows[b][k], heb.post_wght)]),
                     heb.signVal)]>>)

\* pre_evolve has run with a bound, a decay, a negative sign and a
\* post-synaptic weighting other than 1 on active units and non-zero
\* weights
C20_Witness ==
    /\ HebbEvolved
    /\ heb.w_bounds > 0
    /\ heb.w_decay > 0
    /\ heb.signVal < 0
    /\ heb.post_wght # Q
    /\ heb.weights.kind = "mat"
    /\ \E i \in 1..heb.shape[1] : heb.dW.rows[i][1] > 0
    /\ \E i \in 1..heb.shape[1] : heb.dW.rows[i][1] < 0
    /\ heb.db.rows[1][1] # heb.post.rows[1][1]


\* the current a step scales: the one gathered into j before it
GatheredCurrent == log[Len(log)].j

\* the cell stepped is a quadratic one
IsQuad == "v_c" \in DOMAIN lif

\* j multiplied by R_m * tau_m / dt
ScaledCurrent(c, j) == Mul(Mul(j, c.R_m), RoundDiv(c.tau_m * Q, c.dt))

(* C21: in every advance step of LIFCell and of QuadLIFCell, the current   *)
(* that enters the voltage derivative equals the incoming current j        *)
(* multiplied by R_m*tau_m/dt: a LIF unit out of its refractory period     *)
(* that stays below threshold moves by dt/tau_m of (v_rest - v) plus that  *)
(* current, and the quadratic cell returns that current as its j.          *)
C21_CurrentScaling ==
    LIFStepped =>
        \A u \in 1..lif.n_units :
            IF IsQuad
            THEN lif.j[u] = ScaledCurrent(lif, GatheredCurrent[u])
            ELSE (prev.rfr[u] >= lif.refract_T /\ lif.s_raw[u] = 0) =>
                    lif.v[u] = prev.v[u] + lif.dt *
                        RoundDiv((lif.v_rest - prev.v[u])
                                    + ScaledCurrent(lif, GatheredCurrent[u]),
                                 lif.tau_m)


\* the voltages of this step's integration, before the hyper-polarization
IntegratedVoltage ==
    step_euler(prev.v, lif.dt,
               modify_current(GatheredCurrent, lif.dt, lif.tau_m, lif.R_m),
               prev.rfr, lif.tau_m, lif.refract_T, lif.v_rest)

\* a step of a LIF cell proper
LIFProperStepped == LIFStepped /\ ~IsQuad

(* C22: in each LIFCell.advance_state step, a unit's raw spike is 1        *)
(* exactly when its voltage after this step's integration is strictly      *)
(* greater than thr + thr_theta, thr_theta being the value held before     *)
(* this step's threshold update; a voltage equal to the threshold does not *)
(* spike.                                                                  *)
C22_StrictThreshold ==
    LIFProperStepped =>
        \A u \in 1..lif.n_units :
            /\ lif.s_raw[u] \in {0, 1}
            /\ lif.s_raw[u] = 1 <=>
                  IntegratedVoltage[u] > lif.thr + prev.thr_theta[u]
            /\ IntegratedVoltage[u] = lif.thr + prev.thr_theta[u] =>
                  lif.s_raw[u] = 0

\* one unit sits exactly on its threshold and stays silent while another
\* spikes above the threshold held before the step and not above the one
\* held after it
C22_Witness ==
    /\ LIFProperStepped
    /\ \E u \in 1..lif.n_units :
          /\ IntegratedVoltage[u] = lif.thr + prev.thr_theta[u]
          /\ lif.s_raw[u] = 0
    /\ \E u \in 1..lif.n_units :
          /\ lif.s_raw[u] = 1
          /\ IntegratedVoltage[u] <= lif.thr + lif.thr_theta[u]
          /\ lif.thr_theta[u] # prev.thr_theta[u]


\* thr_theta * exp(-dt / tau_theta)
DecayedTheta(c, u) ==
    Mul(c.thr_theta[u], ExpNeg(RoundDiv(lif.dt * Q, lif.tau_theta)))

(* C23: in LIFCell.advance_state with tau_theta > 0, for every unit        *)
(* thr_theta' = thr_theta*exp(-dt/tau_theta) + theta_plus if the unit      *)
(* raw-spiked in this step (also when the one_spike arbitration kept that  *)
(* spike out of s) and thr_theta' = thr_theta*exp(-dt/tau_theta)           *)
(* otherwise; with tau_theta <= 0, advance_state leaves thr_theta          *)
(* unchanged.                                                              *)
C23_ThetaUpdate ==
    LIFProperStepped =>
        IF lif.tau_theta > 0
        THEN \A u \in 1..lif.n_units :
                lif.thr_theta[u] =
                    IF lif.s_raw[u] = 1
                    THEN DecayedTheta(prev, u) + lif.theta_plus
                    ELSE DecayedTheta(prev, u)
        ELSE lif.thr_theta = prev.thr_theta

\* a unit that crossed threshold and lost the arbitration has its decayed,
\* non-zero threshold shift raised by theta_plus
C23_Witness ==
    /\ LIFProperStepped
    /\ lif.tau_theta > 0
    /\ lif.one_spike
    /\ \E u \in 1..lif.n_units :
          /\ lif.s_raw[u] = 1
          /\ lif.s[u] = 0
          /\ prev.thr_theta[u] > 0
          /\ DecayedTheta(prev, u) < prev.thr_theta[u]
          /\ lif.thr_theta[u] = DecayedTheta(prev, u) + lif.theta_plus


SLIFStepped == slif.built /\ op = "advance"

\* the voltage of this step's integration: a refractory unit keeps its
\* voltage, another moves by dt/tau_m of (-v + j), j being the current
\* the step stored
SLIFIntegrated(u) ==
    IF prev.rfr[u] >= slif.refract_T
    THEN prev.v[u] + RoundDiv(slif.j[u] - prev.v[u], slif.tau_m)
    ELSE prev.v[u]

\* the threshold-crossing spike of this step
SLIFCrossed(u) == IF SLIFIntegrated(u) > prev.thr[u] THEN 1 ELSE 0

(* C25: in SLIFCell with sticky_spikes enabled, on every advance step in   *)
(* which a unit's refractory counter is below refract_T at the start of    *)
(* the step, the unit's output spike is 1; with sticky_spikes disabled the *)
(* output spike equals the raw threshold-crossing spike of that step.      *)
C25_StickySpikes ==
    SLIFStepped =>
        \A u \in 1..slif.n_units :
            /\ (slif.sticky_spikes /\ prev.rfr[u] < slif.refract_T) =>
                  slif.s[u] = 1
            /\ ~slif.sticky_spikes => slif.s[u] = SLIFCrossed(u)

\* a refractory unit that crosses no threshold in the step has its spike
\* pinned at 1
C25_Witness ==
    /\ SLIFStepped
    /\ slif.sticky_spikes
    /\ \E u \in 1..slif.n_units :
          /\ prev.rfr[u] < slif.refract_T
          /\ SLIFCrossed(u) = 0
          /\ slif.s[u] = 1

\* the number of threshold-crossing spikes of this step
SLIFCrossings == SumSeq([u \in 1..slif.n_units |-> SLIFCrossed(u)])

(* C26: SLIFCell threshold update per advance step: with rho_b <= 0 each   *)
(* unit's thr' = thr + spike*thrGain - thr*thrLeak (spike being the unit's *)
(* threshold-crossing spike of the step); with rho_b > 0 each unit's       *)
(* thr' = max(thr + (number of spikes in its batch row - 1)*rho_b, 0.025), *)
(* so that with rho_b > 0 every threshold is at least 0.025 after every    *)
(* step.                                                                   *)
C26_ThresholdUpdate ==
    SLIFStepped =>
        \A u \in 1..slif.n_units :
            IF slif.rho_b > 0
            THEN /\ slif.thr[u] =
                        Max(prev.thr[u] + (SLIFCrossings - 1) * slif.rho_b,
                            Q \div 40)
                 /\ slif.thr[u] >= Q \div 40
            ELSE slif.thr[u] =
                    prev.thr[u] + SLIFCrossed(u) * slif.thrGain
                        - Mul(prev.thr[u], slif.thrLeak)

\* under the sparsity rule a silent step has brought a threshold that
\* would have gone below the floor down to the floor
C26_Witness ==
    /\ SLIFStepped
    /\ slif.rho_b > 0
    /\ SLIFCrossings = 0
    /\ \E u \in 1..slif.n_units :
          /\ prev.thr[u] - slif.rho_b < Q \div 40
          /\ slif.thr[u] = Q \div 40


\* the step keeps the learned parameters and every compartment outside
\* the set written
HebbKeeps(written) ==
    /\ heb'.weights = heb.weights
    /\ heb'.biases = heb.biases
    /\ \A f \in {"outputs", "dW", "db", "theta", "updates", "key",
                 "trigger", "new_theta"} \ written : heb'[f] = heb[f]

(* C27: HebbianSynapse.advance changes only the outputs compartment and    *)
(* HebbianSynapse.pre_evolve changes only dW, db, theta and updates (each  *)
(* after its inputs, or pre and post, were gathered): after either         *)
(* operation the values of weights and biases are exactly those held       *)
(* before it, so learned parameters change only through post_evolve or    *)
(* reset.                                                                  *)
C27_LearnedParametersFrame ==
    [][/\ op' = "advance" => HebbKeeps({"outputs"})
       /\ op' = "pre_evolve" =>
             (/\ HebbKeeps({"dW", "db", "theta", "updates"})
              /\ heb'.inputs = heb.inputs
              /\ heb'.outputs = heb.outputs
              /\ heb'.theta = <<heb.weights, heb.biases>>)
       /\ (heb'.weights # heb.weights \/ heb'.biases # heb.biases) =>
             op' \in {"post_evolve", "reset"}]_vars

\* pre_evolve has computed a non-zero update for a synapse that had
\* advanced, and its parameters are those theta records
C27_Witness ==
    /\ HebbEvolved
    /\ heb.outputs # None
    /\ heb.weights.kind = "mat"
    /\ \E x \in Entries(heb.dW) : x # 0
    /\ \E x \in Entries(heb.db) : x # 0
    /\ heb.theta = <<heb.weights, heb.biases>>


\* an advance step of the latency cell has completed
LatStepped == lat.built /\ op = "advance"

(* C28: after every LatencyCell.advance step at time t, for every unit:    *)
(* tols equals t if the unit emitted a spike in that step and equals its   *)
(* previous value otherwise.                                               *)
C28_TolsRecorded ==
    LatStepped =>
        \A u \in 1..lat.n_units :
            lat.tols[u] = IF lat.outputs[u] = 1 THEN log[Len(log)].t
                          ELSE prev.tols[u]


\* the claim's conditions on the cell stepped: the resting and the reset
\* potential are at most the base threshold and no threshold shift is
\* negative
RefractoryPremises ==
    /\ lif.v_rest <= lif.thr
    /\ lif.v_reset <= lif.thr
    /\ \A u \in 1..lif.n_units : prev.thr_theta[u] >= 0

\* a unit that starts the step refractory crosses no threshold in it and
\* its counter moves on by dt, and a unit that crosses starts over at 0:
\* from a raw spike on, the steps that start at rfr = 0, dt, 2 dt, ...
\* below refract_T are silent, at least refract_T / dt of them
RefractorySilence ==
    \A u \in 1..lif.n_units :
        /\ prev.rfr[u] < lif.refract_T =>
              (lif.s_raw[u] = 0 /\ lif.rfr[u] = prev.rfr[u] + lif.dt)
        /\ lif.s_raw[u] = 1 => lif.rfr[u] = 0

(* C29 as stated: when v_rest <= thr, v_reset <= thr and thr_theta >= 0, a *)
(* LIF unit never crosses threshold on a step that starts with its         *)
(* rfr < refract_T, so after any raw spike of a unit at least              *)
(* refract_T/dt consecutive steps without a raw spike of that unit follow, *)
(* for any input current sequence.                                         *)
C29_MinimumInterval ==
    (LIFProperStepped /\ RefractoryPremises) => RefractorySilence

(* C29 amended: the same, for a cell stepped with dt <= tau_m.             *)
C29_MinimumIntervalStable ==
    (LIFProperStepped /\ RefractoryPremises /\ lif.dt <= lif.tau_m) =>
        RefractorySilence

\* a unit in its refractory period is fed a current and stays silent
\* while its neighbour, fed the same, spikes
C29_Witness ==
    /\ LIFProperStepped
    /\ RefractoryPremises
    /\ lif.dt <= lif.tau_m
    /\ \E u, w \in 1..lif.n_units :
          /\ prev.rfr[u] < lif.refract_T
          /\ prev.rfr[u] > 0
          /\ GatheredCurrent[u] > 0
          /\ lif.s_raw[u] = 0
          /\ lif.rfr[u] = prev.rfr[u] + lif.dt
          /\ GatheredCurrent[w] = GatheredCurrent[u]
          /\ lif.s_raw[w] = 1


(* C30: after STPDenseSynapse.reset the resource-availability vector x is  *)
(* 0 for every input unit; therefore with tau_d <= 0 the effective weights *)
(* weights*u*x are zero on every later advance_state step (every one that  *)
(* returns) and outputs equal biases, whatever the inputs and weights are. *)
C30_SilentSynapse ==
    /\ (stp.built /\ op = "reset") => stp.x = Zeros(1, stp.shape[1])
    /\ (STPStepped /\ stp.tau_d <= 0) =>
          /\ prev.x = Zeros(1, stp.shape[1])
          /\ Entries(BMul(BMul(stp.weights, stp.u), prev.x)) = {0}
          /\ \A k \in 1..stp.shape[2] :
                stp.outputs.rows[1][k] = At(stp.biases, 1, k)
          /\ stp.x = Zeros(1, stp.shape[1])

\* a synapse with biases and tau_d = 0 was stepped, reset (its outputs
\* were back at zero) and stepped again on spikes through non-zero
\* weights with non-zero release probabilities: it outputs its biases
C30_Witness ==
    /\ STPStepped
    /\ stp.tau_d <= 0
    /\ stp.bias
    /\ t >= 2
    /\ prev.outputs = Zeros(1, stp.shape[2])
    /\ prev.u = Zeros(1, stp.shape[1])
    /\ \A v \in Entries(stp.inputs) : v = Q
    /\ \A v \in Entries(stp.weights) : v > 0
    /\ \A v \in Entries(stp.u) : v > 0
    /\ \A v \in Entries(stp.biases) : v > 0
    /\ stp.outputs = stp.biases

====
